---- MODULE Spec2Model ----
(***************************************************************************)
(* A model of the MicroRadar kernel-telemetry pipeline:                    *)
(*   - the Monitor (loader, lifecycle, snapshot store) of                  *)
(*     pkg/ebpf/monitor.go,                                                *)
(*   - the DataProcessor (event pump, aggregator, reaper) and its event    *)
(*     handlers of pkg/ebpf/processor.go,                                  *)
(*   - the kernel probes of container_trace.c and network_monitor.c.       *)
(*                                                                         *)
(* Spec      : the Monitor's lifecycle and the goroutines it spawns.      *)
(* LiveSpec  : Spec with the fairness of the Go scheduler and the tickers. *)
(* SnapSpec  : the lifecycle, the update cycles and the GetMetrics callers.*)
(* SpecAgg   : the event handlers on the aggregator.                       *)
(* SpecProbe : the kernel probes on the kernel maps of a running monitor.  *)
(***************************************************************************)
EXTENDS Integers, Sequences, FiniteSets, TLC

(***************************************************************************)
(* Bounds of the model.                                                    *)
(***************************************************************************)
\* Successful Monitor.Start calls (each spawns four goroutines).
MaxStarts == 2
\* Readings of the clock by update cycles.
MaxClock == 3
\* Concurrent callers of Monitor.GetMetrics.
NReaders == 1
\* CPUs that run kernel probes.
NCpus == 2
\* Readings of the kernel clock: every probe entry takes one.
MaxKtime == 3
\* Records a ring buffer holds.
RingCap == 2

VARIABLES
    \* Monitor (monitor.go:63-81)
    running,        \* m.running
    startTime,      \* m.startTime (0: the zero time)
    links,          \* m.links: the attached programs, in attach order
    coll,           \* m.coll: "nil" or the loaded collection
    metrics,        \* *m.metrics: the one Metrics object the monitor owns
    \* DataProcessor (processor.go:15-28)
    processorRunning,   \* p.running
    ctxDone,            \* p.ctx has been cancelled
    \* goroutines
    tasks,          \* the goroutines Start has spawned: how many of each
                    \* kind are at each position
    crashed,        \* the process has died of an unrecovered panic
    \* callers
    ret,            \* what the last Start/Stop/Close call returned
    rpc,            \* position of every GetMetrics caller
    held,           \* the snapshot every GetMetrics caller got last
    \* MetricsAggregator (processor.go:36-45)
    containerMetrics,   \* aggregator.containerMetrics: cgroup id -> record
    networkMetrics,     \* aggregator.networkMetrics: cgroup id -> record
    systemMetrics,      \* aggregator.systemMetrics
    lastReset,          \* aggregator.lastReset
    \* kernel maps (container_trace.c, network_monitor.c)
    container_map,      \* cgroup id -> container_info
    pid_to_cgroup_map,  \* pid -> cgroup id
    events,             \* the lifecycle ring buffer
    stats_map,          \* index -> counter
    flow_stats_map,     \* flow_key -> flow_stats
    latency_map,        \* flow_key -> time of the last egress packet
    network_events,     \* the network ring buffer
    network_stats_map,  \* index -> counter
    cpu,                \* what every CPU runs: no probe, or the clone probe
    ktime,              \* the last reading of bpf_ktime_get_ns()
    \* MemoryManager and MemoryOptimizer (memory.go)
    pools,          \* mm.pools: name -> ObjectPool (len(objects) and counters)
    currentMemory,  \* mm.currentMemory, in KiB
    gcCount,        \* mm.memoryStats.GCCount
    sweep,          \* the call of OptimizeMemory under way, if any
    holding,        \* the pooled-type objects the callers hold, by pool
    \* RuntimeDetector (runtime.go) and the host it looks at
    rdLastScan,     \* rd.lastScan (0: the zero time)
    rdDetected,     \* rd.detectedRuntimes
    rdReturned,     \* what the last call on the detector returned, and when
    procFiles,      \* /proc/<pid>/cgroup: pid -> the lines of the file
    \* config.Load (config.go)
    cfgFile,        \* the configuration file
    cfgLoaded,      \* what the last call of Load returned
    \* ProcessManager (process_manager.go)
    issued,         \* the runtime commands run and the signals sent or asked for so far
    killRet,        \* what the last call of the process manager returned
    \* TerminalRenderer (terminal.go)
    selectedIndex,  \* r.selectedIndex
    sortBy,         \* r.sortBy
    sortDesc,       \* r.sortDesc
    showKillDialog, \* r.showKillDialog
    killConfirm,    \* r.killConfirm
    highlighted,    \* the ID of the row the last frame drew as selected ("": none)
    \* RenderCache (cache.go)
    rcache,         \* the RenderCache: its fields
    cacheRet,       \* what the last call of GetCachedData returned, and for what
    \* history of the sample events
    arrived,        \* cgroup id, kind -> the sample events handled and the ones kept
    \* callers of DataProcessor.GetAggregatedMetrics
    aggHeld,        \* what the last call of GetAggregatedMetrics returned
    \* the goroutines and callers, by the locks they take
    lockpc,         \* thread -> the operation it is in and how far it has come
    \* environment
    clock           \* the last reading of time.Now()

monVars == <<running, startTime, links, coll, metrics, processorRunning, ctxDone,
             tasks, crashed, ret, rpc, held>>
aggVars == <<containerMetrics, networkMetrics, systemMetrics, lastReset>>
kernelMaps == <<container_map, pid_to_cgroup_map, events, stats_map,
                flow_stats_map, latency_map, network_events, network_stats_map>>
probeVars == <<kernelMaps, cpu, ktime>>
memVars == <<pools, currentMemory, gcCount, sweep, holding>>
detVars == <<rdLastScan, rdDetected, rdReturned, procFiles>>
cfgVars == <<cfgFile, cfgLoaded>>
killVars == <<issued, killRet>>
uiVars == <<selectedIndex, sortBy, sortDesc, showKillDialog, killConfirm,
           highlighted>>
cacheVars == <<rcache, cacheRet>>
histVars == <<arrived>>
viewVars == <<aggHeld>>
lockVars == <<lockpc>>
libVars == <<memVars, detVars, cfgVars, killVars, uiVars,
            cacheVars,
            histVars,
            viewVars,
            lockVars>>
\* what the memory manager, the runtime detector and the configuration
\* leave alone
notMem == <<monVars, aggVars, probeVars, clock, detVars, cfgVars, killVars,
           uiVars,
           cacheVars,
           histVars,
           viewVars,
           lockVars>>
notDet == <<monVars, aggVars, probeVars, clock, memVars, cfgVars, killVars,
           uiVars,
           cacheVars,
           histVars,
           viewVars,
           lockVars>>
notCfg == <<monVars, aggVars, probeVars, clock, memVars, detVars, killVars,
           uiVars,
           cacheVars,
           histVars,
           viewVars,
           lockVars>>
\* what a call of the process manager leaves alone, but for the renderer
\* that makes the call
notKill == <<monVars, aggVars, probeVars, clock, memVars, detVars, cfgVars,
           cacheVars,
           histVars,
           viewVars,
           lockVars>>
notCache == <<monVars, aggVars, probeVars, clock, memVars, detVars, cfgVars,
             killVars, uiVars,
           histVars,
           viewVars,
           lockVars>>
notHist == <<monVars, probeVars, clock, memVars, detVars, cfgVars, killVars,
            uiVars, cacheVars,
           viewVars,
           lockVars>>
notView == <<monVars, aggVars, probeVars, clock, memVars, detVars, cfgVars,
            killVars, uiVars, cacheVars, histVars,
           lockVars>>
notLocks == <<monVars, aggVars, probeVars, clock, memVars, detVars, cfgVars,
             killVars, uiVars, cacheVars, histVars, viewVars>>
notUi == <<monVars, aggVars, probeVars, clock, memVars, detVars, cfgVars,
          killVars,
           cacheVars,
           histVars,
           viewVars,
           lockVars>>
vars == <<monVars, aggVars, probeVars, libVars, clock>>

(***************************************************************************)
(* Programs and maps of the two probe objects (monitor.go:221-285).        *)
(***************************************************************************)
LifecyclePrograms ==
    {"trace_container_start", "trace_container_stop",
     "kprobe_cgroup_attach", "trace_process_exec"}

NetworkPrograms == {"kprobe_tcp_retransmit", "trace_tcp_probe"}

\* The order in which attachPrograms walks the programs: the lifecycle
\* tracepoints and kprobe first, then the network kprobe and tracepoint.
\* The TC programs are never attached.
AttachOrder ==
    <<"trace_container_start", "trace_container_stop", "kprobe_cgroup_attach",
      "trace_process_exec", "kprobe_tcp_retransmit", "trace_tcp_probe">>

MapNames ==
    {"container_map", "pid_to_cgroup_map", "events", "stats_map",
     "flow_stats_map", "latency_map", "tcp_state_map", "network_events",
     "network_stats_map"}

\* m.coll == nil
NilColl == [loaded |-> FALSE, progs |-> {}, maps |-> {}]

\* What loadPrograms can end with: NilColl (ebpf.NewCollection returns an
\* error and m.coll stays nil) or a collection: of the maps alone when the
\* object files cannot be read, of the maps and the programs otherwise.
LoadOutcomes ==
    {NilColl} \cup
    { [loaded |-> TRUE, progs |-> ps, maps |-> MapNames] :
        ps \in {{}, LifecyclePrograms \cup NetworkPrograms} }

\* Where an attach can fail for a loaded collection: nowhere ("none"), at
\* the first program attached (nothing to undo) or at the last (every
\* earlier link to undo).
FailPoints(c) ==
    IF c.progs = {} THEN {"none"}
    ELSE {"none", AttachOrder[1], AttachOrder[Len(AttachOrder)]}

(***************************************************************************)
(* Metrics and the container lists (monitor.go:84-103).                    *)
(***************************************************************************)
ContainerMetric(id, pid, status) == [ID |-> id, PID |-> pid, Status |-> status]

\* generateMockContainers
MockContainers ==
    << ContainerMetric("container_001", 12345, "running"),
       ContainerMetric("container_002", 12346, "running") >>

\* The lists readContainerMetrics can build from the container table, by the
\* table's content at the time of the read.
ReadLists ==
    { <<>>, << ContainerMetric("2", 10, "unknown") >> }

\* What readContainerMetrics returns: a list, or an error (a missing map or a
\* failed iteration).
ReadOutcomes == [err : {FALSE}, list : ReadLists] \cup {[err |-> TRUE, list |-> <<>>]}

\* The Metrics object NewMonitor allocates.  cycle is a history field: the
\* LastUpdate of the update cycle that wrote Containers (0: none yet).
NewMetrics ==
    [Containers |-> <<>>, SystemMemory |-> 0, EBPFMapsCount |-> 0,
     LastUpdate |-> 0, cycle |-> 0]

(***************************************************************************)
(* Goroutines.                                                             *)
(***************************************************************************)
ProcessorKinds == {"pump", "aggregator", "reaper"}
Kinds == ProcessorKinds \cup {"collector"}
\* Positions: a goroutine of the DataProcessor is at its select or has
\* returned; the collector waits for its ticker, waits for m.mu, updates
\* under m.mu, or has returned.  Goroutines of one kind run the same code on
\* the same objects, so the state keeps their number at each position.
Positions == {"select", "wait", "lock", "update", "done"}
Readers == 1..NReaders

At(k, pos) == tasks[k][pos]

\* Goroutines of kind k that have not returned.
Live(k) == At(k, "select") + At(k, "wait") + At(k, "lock") + At(k, "update")

\* Number of successful Start calls so far: each spawns one collector.
NStarts == Live("collector") + At("collector", "done")

\* One goroutine of kind k goes from one position to another.
Move(k, from, to) ==
    [tasks EXCEPT ![k] = [@ EXCEPT ![from] = @ - 1, ![to] = @ + 1]]

(***************************************************************************)
(* m.mu, a sync.RWMutex.  Start, Stop and Close hold it for their whole    *)
(* body and are single steps; an update cycle holds it while at "update";  *)
(* GetMetrics holds it shared while at "reading".  A pending Lock keeps    *)
(* new readers out.                                                        *)
(***************************************************************************)
WriterHolds == At("collector", "update") > 0
WriterWaits == At("collector", "lock") > 0
ReadersHold == \E r \in Readers : rpc[r] = "reading"
CanLock == ~WriterHolds /\ ~ReadersHold
CanRLock == ~WriterHolds /\ ~WriterWaits

(***************************************************************************)
(* Monitor.cleanup: close every link and the collection.                   *)
(***************************************************************************)
\* cleanup without `m.links = nil`
CleanupKeepsLinks == [links |-> links, coll |-> NilColl]

Cleanup == [links |-> <<>>, coll |-> NilColl]

(***************************************************************************)
(* attachPrograms on collection c: walk AttachOrder, attach every program  *)
(* the collection holds and append its link to m.links; stop at the first  *)
(* attach that fails (failAt; "none": every attach succeeds).              *)
(***************************************************************************)
RECURSIVE AttachFrom(_, _, _, _)
AttachFrom(i, c, failAt, acc) ==
    IF i > Len(AttachOrder) THEN [ok |-> TRUE, links |-> acc]
    ELSE IF AttachOrder[i] \notin c.progs THEN AttachFrom(i + 1, c, failAt, acc)
    ELSE IF AttachOrder[i] = failAt THEN [ok |-> FALSE, links |-> acc]
    ELSE AttachFrom(i + 1, c, failAt, Append(acc, AttachOrder[i]))

AttachPrograms(c, failAt) == AttachFrom(1, c, failAt, links)

(***************************************************************************)
(* DataProcessor.Start and DataProcessor.Stop.  The context is made once,  *)
(* in NewDataProcessor; Stop cancels it.                                   *)
(***************************************************************************)
ProcessorStartFails == processorRunning

\* The three goroutines DataProcessor.Start spawns and the collector
\* goroutine Monitor.Start spawns.
SpawnTasks ==
    [k \in Kinds |->
        [tasks[k] EXCEPT ![IF k = "collector" THEN "wait" ELSE "select"] = @ + 1]]

\* DataProcessor.Stop without p.cancel()
ProcessorStopNoCancel == [ctxDone |-> ctxDone, running |-> FALSE]

ProcessorStop ==
    IF processorRunning
    THEN [ctxDone |-> TRUE, running |-> FALSE]
    ELSE [ctxDone |-> ctxDone, running |-> processorRunning]

(***************************************************************************)
(* Monitor.Start.                                                          *)
(***************************************************************************)
\* Start without its `if m.running` check
AlreadyRunningUnchecked == FALSE

AlreadyRunning == running

Returned(op, err) == [op |-> op, err |-> err]

MonitorStart(load, failAt) ==
    /\ ~crashed
    /\ CanLock
    /\ UNCHANGED <<metrics, rpc, held, crashed, aggVars, probeVars, clock, libVars>>
    /\ IF AlreadyRunning
       THEN /\ ret' = Returned("Start", "already running")
            /\ UNCHANGED <<running, startTime, links, coll, processorRunning,
                           ctxDone, tasks>>
       ELSE IF ~load.loaded
       THEN \* loadPrograms failed: m.coll is not assigned
            /\ ret' = Returned("Start", "load failed")
            /\ UNCHANGED <<running, startTime, links, coll, processorRunning,
                           ctxDone, tasks>>
       ELSE LET att == AttachPrograms(load, failAt) IN
            IF ~att.ok
            THEN /\ ret' = Returned("Start", "attach failed")
                 /\ links' = Cleanup.links
                 /\ coll' = Cleanup.coll
                 /\ UNCHANGED <<running, startTime, processorRunning, ctxDone, tasks>>
            ELSE IF ProcessorStartFails
            THEN /\ ret' = Returned("Start", "processor failed")
                 /\ links' = Cleanup.links
                 /\ coll' = Cleanup.coll
                 /\ UNCHANGED <<running, startTime, processorRunning, ctxDone, tasks>>
            ELSE /\ NStarts < MaxStarts
                 /\ ret' = Returned("Start", "nil")
                 /\ links' = att.links
                 /\ coll' = load
                 /\ processorRunning' = TRUE
                 /\ tasks' = SpawnTasks
                 /\ running' = TRUE
                 /\ startTime' = clock
                 /\ UNCHANGED ctxDone

(***************************************************************************)
(* Monitor.Stop, and Monitor.Close, which calls it.                        *)
(***************************************************************************)
StopBody(op) ==
    /\ ~crashed
    /\ CanLock
    /\ ret' = Returned(op, "nil")
    /\ UNCHANGED <<startTime, metrics, tasks, rpc, held, crashed, aggVars, probeVars, clock, libVars>>
    /\ IF ~running
       THEN UNCHANGED <<running, links, coll, processorRunning, ctxDone>>
       ELSE /\ ctxDone' = ProcessorStop.ctxDone
            /\ processorRunning' = ProcessorStop.running
            /\ links' = Cleanup.links
            /\ coll' = Cleanup.coll
            /\ running' = FALSE

MonitorStop == StopBody("Stop")

\* Close returns m.Stop().
MonitorClose == MonitorStop

(***************************************************************************)
(* The aggregator and the event handlers (processor.go).                   *)
(* Durations are in units of the clock (seconds).                          *)
(***************************************************************************)
\* windowSize: 60 * time.Second
WindowSize == 60
\* performCleanup's cutoff: 10 * time.Minute
CleanupAge == 600
\* The most samples a buffer keeps.
MaxSamples == 100
\* The CPU usage CPUSampleHandler records for every event.
MockCPUUsage == 50
\* The memory usage MemorySampleHandler records for every event, in MiB
\* (the code counts bytes in 64 bits: 512*1024*1024).
MockMemoryUsage == 512

\* Cgroup ids container-start events arrive for, and cgroup ids the other
\* events arrive for.
StartCgroups == {2}
EventCgroups == {2, 3}
EventPids == {10}

Event(type, cg, pid) == [Type |-> type, Timestamp |-> clock, CgroupID |-> cg, PID |-> pid]

Restrict(f, S) == [k \in S |-> f[k]]

RECURSIVE SeqSum(_)
SeqSum(q) == IF q = <<>> THEN 0 ELSE q[1] + SeqSum(Tail(q))

SeqMin(q) == CHOOSE x \in {q[i] : i \in 1..Len(q)} : \A j \in 1..Len(q) : x <= q[j]
SeqMax(q) == CHOOSE x \in {q[i] : i \in 1..Len(q)} : \A j \in 1..Len(q) : x >= q[j]

\* ContainerStartHandler.HandleEvent
ContainerStartHandler(ev) ==
    LET cg == ev.CgroupID
        old == IF cg \in DOMAIN containerMetrics
               THEN containerMetrics[cg]
               ELSE [PID |-> ev.PID,
                     CPUSamples |-> <<>>, CPUAvg |-> 0, CPUMax |-> 0, CPUMin |-> 0,
                     MemorySamples |-> <<>>, MemoryAvg |-> 0, MemoryMax |-> 0,
                     MemoryMin |-> 0,
                     Status |-> "starting", StartTime |-> ev.Timestamp,
                     LastUpdate |-> clock]
        new == [old EXCEPT !.Status = "running", !.LastUpdate = clock]
    IN  /\ containerMetrics' =
              [k \in DOMAIN containerMetrics \cup {cg} |->
                  IF k = cg THEN new ELSE containerMetrics[k]]
        /\ UNCHANGED <<networkMetrics, systemMetrics, lastReset>>

\* ContainerStopHandler.HandleEvent
ContainerStopHandler(ev) ==
    LET cg == ev.CgroupID IN
    /\ containerMetrics' =
          IF cg \in DOMAIN containerMetrics
          THEN [containerMetrics EXCEPT ![cg].Status = "stopped",
                                        ![cg].LastUpdate = clock]
          ELSE containerMetrics
    /\ UNCHANGED <<networkMetrics, systemMetrics, lastReset>>

\* NetworkPacketHandler.HandleEvent
NetworkPacketHandler(ev) ==
    LET cg == ev.CgroupID
        old == IF cg \in DOMAIN networkMetrics
               THEN networkMetrics[cg]
               ELSE [LatencySamples |-> <<>>, TCPRetransmits |-> 0,
                     LastUpdate |-> clock]
    IN  /\ networkMetrics' =
              [k \in DOMAIN networkMetrics \cup {cg} |->
                  IF k = cg THEN [old EXCEPT !.LastUpdate = clock]
                  ELSE networkMetrics[k]]
        /\ UNCHANGED <<containerMetrics, systemMetrics, lastReset>>

\* The bounded append of both sample handlers: append, then drop the oldest
\* sample when the buffer has grown past MaxSamples.
\* the append without the trim
AppendSampleUntrimmed(samples, x) == Append(samples, x)

\* the append that keeps the first MaxSamples samples
AppendSampleDropNewest(samples, x) ==
    IF Len(samples) >= MaxSamples THEN samples ELSE Append(samples, x)

AppendSample(samples, x) ==
    LET grown == Append(samples, x) IN
    IF Len(grown) > MaxSamples THEN Tail(grown) ELSE grown

\* What a sample handler returns: an error when the aggregator has no record
\* of the cgroup id of the event
SampleHandlerReturn(ev) ==
    IF ev.CgroupID \in DOMAIN containerMetrics THEN "nil" ELSE "no container"

\* a sample handler that makes the record it does not find
SampleHandlerCreates(ev) ==
    LET cg == ev.CgroupID IN
    /\ containerMetrics' =
          [k \in DOMAIN containerMetrics \cup {cg} |->
              IF k = cg
              THEN [PID |-> ev.PID,
                    CPUSamples |-> <<MockCPUUsage>>, CPUAvg |-> MockCPUUsage,
                    CPUMax |-> MockCPUUsage, CPUMin |-> MockCPUUsage,
                    MemorySamples |-> <<>>, MemoryAvg |-> 0, MemoryMax |-> 0,
                    MemoryMin |-> 0,
                    Status |-> "running", StartTime |-> ev.Timestamp,
                    LastUpdate |-> clock]
              ELSE containerMetrics[k]]
    /\ UNCHANGED <<networkMetrics, systemMetrics, lastReset>>

\* CPUSampleHandler.HandleEvent (with calculateCPUStats); an event for an
\* unknown cgroup id returns an error.
CPUSampleHandler(ev) ==
    LET cg == ev.CgroupID IN
    /\ containerMetrics' =
          IF cg \in DOMAIN containerMetrics
          THEN LET q == AppendSample(containerMetrics[cg].CPUSamples, MockCPUUsage) IN
               [containerMetrics EXCEPT ![cg].CPUSamples = q,
                                        ![cg].CPUAvg = SeqSum(q) \div Len(q),
                                        ![cg].CPUMin = SeqMin(q),
                                        ![cg].CPUMax = SeqMax(q),
                                        ![cg].LastUpdate = clock]
          ELSE containerMetrics
    /\ UNCHANGED <<networkMetrics, systemMetrics, lastReset>>

\* MemorySampleHandler.HandleEvent (with calculateMemoryStats)
MemorySampleHandler(ev) ==
    LET cg == ev.CgroupID IN
    /\ containerMetrics' =
          IF cg \in DOMAIN containerMetrics
          THEN LET q == AppendSample(containerMetrics[cg].MemorySamples, MockMemoryUsage) IN
               [containerMetrics EXCEPT ![cg].MemorySamples = q,
                                        ![cg].MemoryAvg = SeqSum(q) \div Len(q),
                                        ![cg].MemoryMin = SeqMin(q),
                                        ![cg].MemoryMax = SeqMax(q),
                                        ![cg].LastUpdate = clock]
          ELSE containerMetrics
    /\ UNCHANGED <<networkMetrics, systemMetrics, lastReset>>

\* resetAggregationWindow: drop the records not updated for two windows.
ResetAggregationWindow ==
    /\ containerMetrics' =
          Restrict(containerMetrics,
                   {k \in DOMAIN containerMetrics :
                       ~(clock - containerMetrics[k].LastUpdate > WindowSize * 2)})
    /\ networkMetrics' =
          Restrict(networkMetrics,
                   {k \in DOMAIN networkMetrics :
                       ~(clock - networkMetrics[k].LastUpdate > WindowSize * 2)})
    /\ lastReset' = clock

\* performAggregation: reset the window when it has elapsed, then
\* aggregateSystemMetrics (aggregateContainerMetrics and
\* aggregateNetworkMetrics are empty).  systemMetrics.LastUpdate, which
\* nothing reads, is left out.
PerformAggregation ==
    /\ IF clock - lastReset >= WindowSize
       THEN ResetAggregationWindow
       ELSE UNCHANGED <<containerMetrics, networkMetrics, lastReset>>
    /\ systemMetrics' =
          [TotalContainers |-> Cardinality(DOMAIN containerMetrics'),
           ActiveContainers |->
               Cardinality({k \in DOMAIN containerMetrics' :
                               containerMetrics'[k].Status = "running"})]

\* performCleanup: drop the records not updated for ten minutes.
PerformCleanup ==
    /\ containerMetrics' =
          Restrict(containerMetrics,
                   {k \in DOMAIN containerMetrics :
                       ~(containerMetrics[k].LastUpdate < clock - CleanupAge)})
    /\ networkMetrics' =
          Restrict(networkMetrics,
                   {k \in DOMAIN networkMetrics :
                       ~(networkMetrics[k].LastUpdate < clock - CleanupAge)})
    /\ UNCHANGED <<systemMetrics, lastReset>>

\* p.eventHandlers, as registerEventHandlers fills it, applied to an event.
EVENT_CONTAINER_START == 1
EVENT_CONTAINER_STOP == 2
EVENT_NETWORK_PACKET == 3
EVENT_CPU_SAMPLE == 4
EVENT_MEMORY_SAMPLE == 5

HandleEvent(ev) ==
    /\ ~crashed
    /\ CASE ev.Type = EVENT_CONTAINER_START -> ContainerStartHandler(ev)
         [] ev.Type = EVENT_CONTAINER_STOP -> ContainerStopHandler(ev)
         [] ev.Type = EVENT_NETWORK_PACKET -> NetworkPacketHandler(ev)
         [] ev.Type = EVENT_CPU_SAMPLE -> CPUSampleHandler(ev)
         [] ev.Type = EVENT_MEMORY_SAMPLE -> MemorySampleHandler(ev)
    /\ UNCHANGED <<monVars, probeVars, clock, libVars>>

(***************************************************************************)
(* Monitor.updateMetrics, run with m.mu held.  out is what                 *)
(* readContainerMetrics returns.  At least one unit of the clock passes    *)
(* between the clock readings of two update cycles (the cycles are         *)
(* serialised by m.mu): the reading is clock + 1.                          *)
(***************************************************************************)
\* updateMetrics stamping LastUpdate only when the read succeeds
UpdateMetricsStampOnSuccess(out) ==
    LET now == clock + 1
        counted == [metrics EXCEPT !.EBPFMapsCount = Cardinality(coll.maps)]
    IN  IF out.err
        THEN IF Len(metrics.Containers) = 0
             THEN [counted EXCEPT !.Containers = MockContainers, !.cycle = now]
             ELSE counted
        ELSE [counted EXCEPT !.LastUpdate = now, !.Containers = out.list,
                             !.cycle = now]

UpdateMetrics(out) ==
    LET now == clock + 1
        stamped == [metrics EXCEPT !.LastUpdate = now,
                                   !.EBPFMapsCount = Cardinality(coll.maps)]
    IN  IF out.err
        THEN IF Len(metrics.Containers) = 0
             THEN [stamped EXCEPT !.Containers = MockContainers, !.cycle = now]
             ELSE stamped
        ELSE [stamped EXCEPT !.Containers = out.list, !.cycle = now]

(***************************************************************************)
(* Monitor.GetMetrics: a new Metrics object holding a copy of every field  *)
(* and of the container records.  alias tells whether the value is the     *)
(* monitor's own object (a pointer to it) or a copy.                       *)
(***************************************************************************)
NoSnapshot == [valid |-> FALSE, alias |-> FALSE, snap |-> NewMetrics]

GetMetrics == [valid |-> TRUE, alias |-> FALSE, snap |-> metrics]

\* What a holder of snapshot h reads through it.
View(h) == IF h.alias THEN metrics ELSE h.snap

(***************************************************************************)
(* The goroutines of DataProcessor: processEvents, aggregateMetrics and    *)
(* cleanup.  Each loops on a select between ctx.Done() and its ticker.     *)
(***************************************************************************)
\* case <-ticker.C of processEvents: readAndProcessEvents reads
\* p.monitor.coll.Maps without holding m.mu; with m.coll nil that is a nil
\* dereference, which panics.  readEventsFromRingBuf is empty.
PumpTick ==
    /\ ~crashed
    /\ At("pump", "select") > 0
    /\ crashed' = ~coll.loaded
    /\ UNCHANGED <<running, startTime, links, coll, metrics, processorRunning,
                   ctxDone, tasks, ret, rpc, held, aggVars, probeVars, clock, libVars>>

\* case <-ticker.C of aggregateMetrics
AggregatorTick ==
    /\ ~crashed
    /\ At("aggregator", "select") > 0
    /\ PerformAggregation
    /\ UNCHANGED <<monVars, probeVars, clock, libVars>>

\* case <-ticker.C of cleanup
ReaperTick ==
    /\ ~crashed
    /\ At("reaper", "select") > 0
    /\ PerformCleanup
    /\ UNCHANGED <<monVars, probeVars, clock, libVars>>

\* case <-p.ctx.Done(): return
ProcessorTaskExit(k) ==
    /\ ~crashed
    /\ At(k, "select") > 0
    /\ ctxDone
    /\ tasks' = Move(k, "select", "done")
    /\ UNCHANGED <<running, startTime, links, coll, metrics, processorRunning,
                   ctxDone, crashed, ret, rpc, held, aggVars, probeVars, clock, libVars>>

(***************************************************************************)
(* The goroutine of Monitor.collectData.                                   *)
(***************************************************************************)
\* Update cycles that have passed IsRunning and not yet stamped a snapshot.
PendingUpdates == At("collector", "lock") + At("collector", "update")

\* case <-ticker.C: if !m.IsRunning() { return }.  IsRunning takes m.mu
\* shared; receiving the tick touches nothing shared and is part of the step.
CollectorTick ==
    /\ ~crashed
    /\ At("collector", "wait") > 0
    /\ CanRLock
    /\ IF running
       THEN /\ clock + PendingUpdates < MaxClock
            /\ tasks' = Move("collector", "wait", "lock")
       ELSE tasks' = Move("collector", "wait", "done")
    /\ UNCHANGED <<running, startTime, links, coll, metrics, processorRunning,
                   ctxDone, crashed, ret, rpc, held, aggVars, probeVars, clock, libVars>>

\* m.updateMetrics: m.mu.Lock()
CollectorLock ==
    /\ ~crashed
    /\ At("collector", "lock") > 0
    /\ CanLock
    /\ tasks' = Move("collector", "lock", "update")
    /\ UNCHANGED <<running, startTime, links, coll, metrics, processorRunning,
                   ctxDone, crashed, ret, rpc, held, aggVars, probeVars, clock, libVars>>

\* m.updateMetrics: the body and the unlock.  With m.coll nil,
\* len(m.coll.Maps) is a nil dereference, which panics: the process dies
\* (nothing recovers) and what the cycle had written is gone with it.
CollectorUpdate(out) ==
    /\ ~crashed
    /\ At("collector", "update") > 0
    /\ IF ~coll.loaded
       THEN /\ crashed' = TRUE
            /\ UNCHANGED <<metrics, tasks, clock>>
       ELSE /\ metrics' = UpdateMetrics(out)
            /\ clock' = clock + 1
            /\ tasks' = Move("collector", "update", "wait")
            /\ UNCHANGED crashed
    /\ UNCHANGED <<running, startTime, links, coll, processorRunning,
                   ctxDone, ret, rpc, held, aggVars, probeVars, libVars>>

(***************************************************************************)
(* Callers of Monitor.GetMetrics.                                          *)
(***************************************************************************)
\* the call: the caller arrives at m.mu.RLock()
GetMetricsCall(r) ==
    /\ ~crashed
    /\ rpc[r] = "idle"
    /\ rpc' = [rpc EXCEPT ![r] = "rlock"]
    /\ UNCHANGED <<running, startTime, links, coll, metrics, processorRunning,
                   ctxDone, tasks, crashed, ret, held, aggVars, probeVars, clock, libVars>>

\* m.mu.RLock() returns
GetMetricsAcquire(r) ==
    /\ ~crashed
    /\ rpc[r] = "rlock"
    /\ CanRLock
    /\ rpc' = [rpc EXCEPT ![r] = "reading"]
    /\ UNCHANGED <<running, startTime, links, coll, metrics, processorRunning,
                   ctxDone, tasks, crashed, ret, held, aggVars, probeVars, clock, libVars>>

\* the copy, the unlock and the return
GetMetricsReturn(r) ==
    /\ ~crashed
    /\ rpc[r] = "reading"
    /\ held' = [held EXCEPT ![r] = GetMetrics]
    /\ rpc' = [rpc EXCEPT ![r] = "idle"]
    /\ UNCHANGED <<running, startTime, links, coll, metrics, processorRunning,
                   ctxDone, tasks, crashed, ret, aggVars, probeVars, clock, libVars>>

(***************************************************************************)
(* The kernel side: the maps and the probes of container_trace.c and       *)
(* network_monitor.c.  A probe runs on a CPU, in the context of the task   *)
(* that hit the hook: cg is that task's cgroup id and pid its process id.  *)
(* Every map helper is atomic; the probes of different CPUs interleave     *)
(* between helpers.  The clone probe is modelled helper by helper, the     *)
(* other probes as one step.  The maps stay far below their capacities     *)
(* here, so nothing is evicted.                                            *)
(***************************************************************************)
CPUs == 1..NCpus
Cgroups == {0, 1, 2}
Pids == {10, 11}

CONTAINER_STATUS_CREATED == 1
CONTAINER_STATUS_RUNNING == 2
CONTAINER_STATUS_STOPPED == 4

STAT_CONTAINERS_CREATED == 0
STAT_CONTAINERS_STOPPED == 1
STAT_EVENTS_SENT == 2
STAT_EVENTS_DROPPED == 3

NET_STAT_PACKETS_IN == 0
NET_STAT_PACKETS_OUT == 1
NET_STAT_BYTES_IN == 2
NET_STAT_BYTES_OUT == 3
NET_STAT_TCP_RETRANSMITS == 4
NET_STAT_UDP_PACKETS == 5
NET_STAT_LATENCY_SAMPLES == 6

IPPROTO_TCP == 6
IPPROTO_UDP == 17
IPPROTO_ICMP == 1
ETH_P_IP == 2048
ETH_P_ARP == 2054

FLOW_FLAG_INBOUND == 1
FLOW_FLAG_OUTBOUND == 2
FLOW_FLAG_RETRANSMIT == 4

\* sizeof(struct ethhdr), sizeof(struct iphdr), sizeof(struct tcphdr),
\* sizeof(struct udphdr)
EthHdrLen == 14
IpHdrLen == 20
TcpHdrLen == 20
UdpHdrLen == 8

\* Entries of stats_map and of network_stats_map.
StatsEntries == 10
NetStatsEntries == 20

\* bpf_map_update_elem(map, k, v, BPF_ANY) and bpf_map_delete_elem(map, k)
Put(map, k, v) == [x \in DOMAIN map \cup {k} |-> IF x = k THEN v ELSE map[x]]
Del(map, k) == [x \in DOMAIN map \ {k} |-> map[x]]

\* a | bit, for a flag word and one flag bit
BitOr(a, bit) == IF (a \div bit) % 2 = 1 THEN a ELSE a + bit

\* bpf_htons / bpf_ntohs on a little-endian machine
Htons(x) == (x % 256) * 256 + (x \div 256)

\* bpf_probe_read_kernel_str(dst, 16, &cgroup_id): the bytes of the id, low
\* byte first, up to the first zero byte
RECURSIVE KernelStr(_)
KernelStr(x) == IF x % 256 = 0 THEN <<>> ELSE <<x % 256>> \o KernelStr(x \div 256)

\* bpf_get_current_comm: the name of the calling task
CommOf == [p \in Pids |-> IF p = 10 THEN "runc" ELSE "nginx"]

\* is_container_process
is_container_process(cgroup_id) == cgroup_id # 0 /\ cgroup_id # 1

\* update_stats(index) on a value of stats_map: the index is always within
\* the array, so the lookup succeeds.
update_stats(stats, index) == [stats EXCEPT ![index] = @ + 1]

\* update_network_stats(index, value)
update_network_stats(stats, index, value) == [stats EXCEPT ![index] = @ + value]

\* bpf_ringbuf_reserve fails when the ring has no room.  Nothing consumes
\* the rings (readEventsFromRingBuf is empty), so a ring only fills.
RingFull(ring) == Len(ring) >= RingCap

\* send_event on the lifecycle ring: the ring and the counters after it.
send_event(ring, stats, event) ==
    IF RingFull(ring)
    THEN [events |-> ring, stats_map |-> update_stats(stats, STAT_EVENTS_DROPPED)]
    ELSE [events |-> Append(ring, event),
          stats_map |-> update_stats(stats, STAT_EVENTS_SENT)]

KernelEvent(type, cg, pid, data) ==
    [type |-> type, timestamp |-> ktime, cgroup_id |-> cg, pid |-> pid, data |-> data]

\* The container_info the clone probe builds.
NewContainer(cg, pid) ==
    [cgroup_id |-> cg, pid |-> pid, ppid |-> pid, container_id |-> KernelStr(cg),
     comm |-> CommOf[pid], start_time |-> ktime,
     status |-> CONTAINER_STATUS_CREATED]

\* A CPU that runs no probe, and a CPU inside the clone probe.
\* struct container_info container = {}
NoContainer ==
    [cgroup_id |-> 0, pid |-> 0, ppid |-> 0, container_id |-> <<>>, comm |-> "",
     start_time |-> 0, status |-> 0]

IdleCpu == [pc |-> "idle", cgroup_id |-> 0, pid |-> 0, container |-> NoContainer]
InClone(pc, cg, pid, container) ==
    [pc |-> pc, cgroup_id |-> cg, pid |-> pid, container |-> container]

\* The entry of every probe: the CPU is free and the kernel clock moves on.
ProbeEntry(c) ==
    /\ cpu[c].pc = "idle"
    /\ ktime < MaxKtime
    /\ ktime' = ktime + 1

\* `existing` of the clone probe is not NULL
CloneFindsExistingNever(cg) == FALSE

CloneFindsExisting(cg) == cg \in DOMAIN container_map

\* trace_container_start, up to the lookup of the container table
trace_container_start(c, cg, pid) ==
    /\ ProbeEntry(c)
    /\ UNCHANGED <<monVars, aggVars, clock, container_map, events, stats_map,
                   flow_stats_map, latency_map, network_events, network_stats_map, libVars>>
    /\ IF ~is_container_process(cg)
       THEN UNCHANGED <<pid_to_cgroup_map, cpu>>
       ELSE /\ pid_to_cgroup_map' = Put(pid_to_cgroup_map, pid, cg)
            /\ IF CloneFindsExisting(cg)
               THEN UNCHANGED cpu
               ELSE cpu' = [cpu EXCEPT ![c] =
                               InClone("insert", cg, pid, NewContainer(cg, pid))]

\* trace_container_start: bpf_map_update_elem(&container_map, ..., BPF_ANY)
CloneInsert(c) ==
    /\ cpu[c].pc = "insert"
    /\ container_map' = Put(container_map, cpu[c].cgroup_id, cpu[c].container)
    /\ cpu' = [cpu EXCEPT ![c].pc = "send"]
    /\ UNCHANGED <<monVars, aggVars, clock, pid_to_cgroup_map, events, stats_map,
                   flow_stats_map, latency_map, network_events, network_stats_map,
                   ktime, libVars>>

\* trace_container_start: send_event and update_stats(STAT_CONTAINERS_CREATED)
CloneSend(c) ==
    LET event == KernelEvent(EVENT_CONTAINER_START, cpu[c].cgroup_id, cpu[c].pid,
                             cpu[c].container)
        sent == send_event(events, stats_map, event)
    IN  /\ cpu[c].pc = "send"
        /\ events' = sent.events
        /\ stats_map' = update_stats(sent.stats_map, STAT_CONTAINERS_CREATED)
        /\ cpu' = [cpu EXCEPT ![c] = IdleCpu]
        /\ UNCHANGED <<monVars, aggVars, clock, container_map, pid_to_cgroup_map,
                       flow_stats_map, latency_map, network_events,
                       network_stats_map, ktime, libVars>>

\* trace_container_stop without `if (container->pid != pid) return 0`
trace_container_stop_AnyPid(c, cg, pid) ==
    /\ ProbeEntry(c)
    /\ UNCHANGED <<monVars, aggVars, clock, cpu, flow_stats_map, latency_map,
                   network_events, network_stats_map, libVars>>
    /\ IF \/ ~is_container_process(cg)
          \/ cg \notin DOMAIN container_map
       THEN UNCHANGED <<container_map, pid_to_cgroup_map, events, stats_map>>
       ELSE LET container == [container_map[cg] EXCEPT
                                 !.status = CONTAINER_STATUS_STOPPED]
                sent == send_event(events, stats_map,
                                   KernelEvent(EVENT_CONTAINER_STOP, cg, pid, container))
            IN  /\ events' = sent.events
                /\ stats_map' = update_stats(sent.stats_map, STAT_CONTAINERS_STOPPED)
                /\ container_map' = Del(container_map, cg)
                /\ pid_to_cgroup_map' = Del(pid_to_cgroup_map, pid)

\* trace_container_stop
trace_container_stop(c, cg, pid) ==
    /\ ProbeEntry(c)
    /\ UNCHANGED <<monVars, aggVars, clock, cpu, flow_stats_map, latency_map,
                   network_events, network_stats_map, libVars>>
    /\ IF \/ ~is_container_process(cg)
          \/ cg \notin DOMAIN container_map
          \/ container_map[cg].pid # pid
       THEN UNCHANGED <<container_map, pid_to_cgroup_map, events, stats_map>>
       ELSE LET container == [container_map[cg] EXCEPT
                                 !.status = CONTAINER_STATUS_STOPPED]
                sent == send_event(events, stats_map,
                                   KernelEvent(EVENT_CONTAINER_STOP, cg, pid, container))
            IN  /\ events' = sent.events
                /\ stats_map' = update_stats(sent.stats_map, STAT_CONTAINERS_STOPPED)
                /\ container_map' = Del(container_map, cg)
                /\ pid_to_cgroup_map' = Del(pid_to_cgroup_map, pid)

\* kprobe_cgroup_attach
kprobe_cgroup_attach(c, cg, pid) ==
    /\ ProbeEntry(c)
    /\ UNCHANGED <<monVars, aggVars, clock, cpu, flow_stats_map, latency_map,
                   network_events, network_stats_map, libVars>>
    /\ IF ~is_container_process(cg)
       THEN UNCHANGED <<container_map, pid_to_cgroup_map, events, stats_map>>
       ELSE /\ pid_to_cgroup_map' = Put(pid_to_cgroup_map, pid, cg)
            /\ IF /\ cg \in DOMAIN container_map
                  /\ container_map[cg].status = CONTAINER_STATUS_CREATED
               THEN LET container == [container_map[cg] EXCEPT
                                         !.status = CONTAINER_STATUS_RUNNING]
                        sent == send_event(events, stats_map,
                                    KernelEvent(EVENT_CONTAINER_START, cg, pid,
                                                container))
                    IN  /\ container_map' = Put(container_map, cg, container)
                        /\ events' = sent.events
                        /\ stats_map' = sent.stats_map
               ELSE UNCHANGED <<container_map, events, stats_map>>

\* trace_process_exec
trace_process_exec(c, cg, pid) ==
    /\ ProbeEntry(c)
    /\ UNCHANGED <<monVars, aggVars, clock, cpu, pid_to_cgroup_map, events,
                   stats_map, flow_stats_map, latency_map, network_events,
                   network_stats_map, libVars>>
    /\ IF is_container_process(cg) /\ cg \in DOMAIN container_map
       THEN container_map' =
                Put(container_map, cg,
                    [container_map[cg] EXCEPT
                        !.comm = CommOf[pid],
                        !.status = IF @ = CONTAINER_STATUS_CREATED
                                   THEN CONTAINER_STATUS_RUNNING ELSE @])
       ELSE UNCHANGED container_map

(***************************************************************************)
(* network_monitor.c.  A connection has its addresses as the wire holds    *)
(* them and its ports as numbers; a packet holds the ports in wire order.  *)
(* The ports of the second connection read the same in both byte orders.   *)
(***************************************************************************)
Conns == { [saddr |-> 1, daddr |-> 2, sport |-> 8080, dport |-> 80],
           [saddr |-> 1, daddr |-> 2, sport |-> 7967, dport |-> 257] }

Packet(len, h_proto, ihl, protocol, tot_len, conn) ==
    [len |-> len, h_proto |-> h_proto, ihl |-> ihl, protocol |-> protocol,
     tot_len |-> tot_len, saddr |-> conn.saddr, daddr |-> conn.daddr,
     source |-> Htons(conn.sport), dest |-> Htons(conn.dport)]

\* The frames the TC hooks see: two TCP segments of different sizes, a UDP
\* datagram, a TCP segment cut short inside its TCP header, an ARP frame, an
\* ICMP message.
Packets ==
    UNION { { Packet(54, ETH_P_IP, 5, IPPROTO_TCP, 40, conn),
              Packet(74, ETH_P_IP, 5, IPPROTO_TCP, 60, conn),
              Packet(42, ETH_P_IP, 5, IPPROTO_UDP, 28, conn),
              Packet(44, ETH_P_IP, 5, IPPROTO_TCP, 40, conn),
              Packet(42, ETH_P_ARP, 0, 0, 0, conn),
              Packet(42, ETH_P_IP, 5, IPPROTO_ICMP, 28, conn) } : conn \in Conns }

FlowKey(src_ip, dst_ip, src_port, dst_port, protocol, cg) ==
    [src_ip |-> src_ip, dst_ip |-> dst_ip, src_port |-> src_port,
     dst_port |-> dst_port, protocol |-> protocol, cgroup_id |-> cg]

\* struct flow_stats new_stats = {}
ZeroFlowStats ==
    [packets |-> 0, bytes |-> 0, latency_sum |-> 0, latency_count |-> 0,
     last_seen |-> 0, tcp_retransmits |-> 0, flags |-> 0]

\* parse_packet: rc is its return value, key and packet_size what it leaves
\* in *key and *packet_size when rc is not negative.
ParseFailed == [rc |-> -1, key |-> FlowKey(0, 0, 0, 0, 0, 0), packet_size |-> 0]

\* parse_packet that takes every IPv4 protocol other than TCP for UDP
parse_packet_AnyProtocol(pkt) ==
    IF EthHdrLen > pkt.len THEN ParseFailed
    ELSE IF pkt.h_proto # ETH_P_IP THEN ParseFailed
    ELSE IF EthHdrLen + IpHdrLen > pkt.len THEN ParseFailed
    ELSE IF pkt.protocol = IPPROTO_TCP
    THEN IF EthHdrLen + pkt.ihl * 4 + TcpHdrLen > pkt.len THEN ParseFailed
         ELSE [rc |-> IPPROTO_TCP,
               key |-> FlowKey(pkt.saddr, pkt.daddr, pkt.source, pkt.dest,
                               pkt.protocol, 0),
               packet_size |-> pkt.tot_len]
    ELSE IF EthHdrLen + pkt.ihl * 4 + UdpHdrLen > pkt.len THEN ParseFailed
         ELSE [rc |-> IPPROTO_UDP,
               key |-> FlowKey(pkt.saddr, pkt.daddr, pkt.source, pkt.dest,
                               pkt.protocol, 0),
               packet_size |-> pkt.tot_len]

parse_packet(pkt) ==
    IF EthHdrLen > pkt.len THEN ParseFailed
    ELSE IF pkt.h_proto # ETH_P_IP THEN ParseFailed
    ELSE IF EthHdrLen + IpHdrLen > pkt.len THEN ParseFailed
    ELSE IF pkt.protocol = IPPROTO_TCP
    THEN IF EthHdrLen + pkt.ihl * 4 + TcpHdrLen > pkt.len THEN ParseFailed
         ELSE [rc |-> IPPROTO_TCP,
               key |-> FlowKey(pkt.saddr, pkt.daddr, pkt.source, pkt.dest,
                               pkt.protocol, 0),
               packet_size |-> pkt.tot_len]
    ELSE IF pkt.protocol = IPPROTO_UDP
    THEN IF EthHdrLen + pkt.ihl * 4 + UdpHdrLen > pkt.len THEN ParseFailed
         ELSE [rc |-> IPPROTO_UDP,
               key |-> FlowKey(pkt.saddr, pkt.daddr, pkt.source, pkt.dest,
                               pkt.protocol, 0),
               packet_size |-> pkt.tot_len]
    ELSE ParseFailed

\* CountPacket where the packet that creates the entry is not counted
CountPacketAfterFirst(key, packet_size, flag) ==
    IF key \in DOMAIN flow_stats_map
    THEN [flow_stats_map[key] EXCEPT !.packets = @ + 1,
                                     !.bytes = @ + packet_size,
                                     !.last_seen = ktime,
                                     !.flags = BitOr(@, flag)]
    ELSE [ZeroFlowStats EXCEPT !.last_seen = ktime, !.flags = flag]

\* The flow entry after a TC hook has counted a packet: created with the
\* hook's flag when absent, then packets, bytes, last_seen and flag updated.
CountPacket(key, packet_size, flag) ==
    LET stats == IF key \in DOMAIN flow_stats_map
                 THEN flow_stats_map[key]
                 ELSE [ZeroFlowStats EXCEPT !.last_seen = ktime, !.flags = flag]
    IN  [stats EXCEPT !.packets = @ + 1,
                      !.bytes = @ + packet_size,
                      !.last_seen = ktime,
                      !.flags = BitOr(@, flag)]

\* tc_ingress
tc_ingress(c, cg, pkt) ==
    LET parsed == parse_packet(pkt)
        key == [parsed.key EXCEPT !.cgroup_id = cg]
    IN  /\ ProbeEntry(c)
        /\ UNCHANGED <<monVars, aggVars, clock, cpu, container_map,
                       pid_to_cgroup_map, events, stats_map, latency_map,
                       network_events, libVars>>
        /\ IF parsed.rc < 0 \/ key.cgroup_id = 0
           THEN UNCHANGED <<flow_stats_map, network_stats_map>>
           ELSE /\ flow_stats_map' =
                      Put(flow_stats_map, key,
                          CountPacket(key, parsed.packet_size, FLOW_FLAG_INBOUND))
                /\ network_stats_map' =
                      LET a == update_network_stats(network_stats_map,
                                                    NET_STAT_PACKETS_IN, 1)
                          b == update_network_stats(a, NET_STAT_BYTES_IN,
                                                    parsed.packet_size)
                      IN  IF parsed.rc = IPPROTO_UDP
                          THEN update_network_stats(b, NET_STAT_UDP_PACKETS, 1)
                          ELSE b

\* tc_egress
tc_egress(c, cg, pkt) ==
    LET parsed == parse_packet(pkt)
        key == [parsed.key EXCEPT !.cgroup_id = cg]
    IN  /\ ProbeEntry(c)
        /\ UNCHANGED <<monVars, aggVars, clock, cpu, container_map,
                       pid_to_cgroup_map, events, stats_map, network_events, libVars>>
        /\ IF parsed.rc < 0 \/ key.cgroup_id = 0
           THEN UNCHANGED <<flow_stats_map, latency_map, network_stats_map>>
           ELSE /\ latency_map' = Put(latency_map, key, ktime)
                /\ flow_stats_map' =
                      Put(flow_stats_map, key,
                          CountPacket(key, parsed.packet_size, FLOW_FLAG_OUTBOUND))
                /\ network_stats_map' =
                      update_network_stats(
                          update_network_stats(network_stats_map,
                                               NET_STAT_PACKETS_OUT, 1),
                          NET_STAT_BYTES_OUT, parsed.packet_size)

\* The sock kprobe_tcp_retransmit gets: NULL, or the sock of a connection;
\* skc_num holds the local port as a number, skc_dport the remote port in
\* wire order.
NullSock == [null |-> TRUE, skc_rcv_saddr |-> 0, skc_daddr |-> 0, skc_num |-> 0,
             skc_dport |-> 0]
Socks ==
    {NullSock} \cup
    { [null |-> FALSE, skc_rcv_saddr |-> conn.saddr, skc_daddr |-> conn.daddr,
       skc_num |-> conn.sport, skc_dport |-> Htons(conn.dport)] : conn \in Conns }

\* What event->data can hold when the probe writes nothing to it: the
\* record bpf_ringbuf_reserve returns is not cleared.
UninitData == {ZeroFlowStats, [ZeroFlowStats EXCEPT !.packets = 1]}

\* kprobe_tcp_retransmit
kprobe_tcp_retransmit(c, cg, pid, sk, junk) ==
    LET key == FlowKey(sk.skc_rcv_saddr, sk.skc_daddr, sk.skc_num, sk.skc_dport,
                       IPPROTO_TCP, cg)
        found == key \in DOMAIN flow_stats_map
        stats == [flow_stats_map[key] EXCEPT
                     !.tcp_retransmits = @ + 1,
                     !.flags = BitOr(@, FLOW_FLAG_RETRANSMIT)]
    IN  /\ ProbeEntry(c)
        /\ UNCHANGED <<monVars, aggVars, clock, cpu, container_map,
                       pid_to_cgroup_map, events, stats_map, latency_map, libVars>>
        /\ IF sk.null \/ key.cgroup_id = 0
           THEN UNCHANGED <<flow_stats_map, network_stats_map, network_events>>
           ELSE /\ flow_stats_map' =
                      IF found THEN Put(flow_stats_map, key, stats)
                      ELSE flow_stats_map
                /\ network_stats_map' =
                      update_network_stats(network_stats_map,
                                           NET_STAT_TCP_RETRANSMITS, 1)
                /\ network_events' =
                      IF RingFull(network_events) THEN network_events
                      ELSE Append(network_events,
                                  KernelEvent(EVENT_NETWORK_PACKET, cg, pid,
                                              IF found THEN stats ELSE junk))

\* trace_tcp_probe without bpf_map_delete_elem(&latency_map, &key)
trace_tcp_probe_KeepsPending(c, cg, ctx) ==
    LET key == FlowKey(ctx.saddr, ctx.daddr, ctx.sport, ctx.dport, IPPROTO_TCP, cg)
        rtt == ktime - latency_map[key]
    IN  /\ ProbeEntry(c)
        /\ UNCHANGED <<monVars, aggVars, clock, cpu, container_map,
                       pid_to_cgroup_map, events, stats_map, network_events,
                       latency_map, libVars>>
        /\ IF key.cgroup_id = 0 \/ key \notin DOMAIN latency_map
              \/ key \notin DOMAIN flow_stats_map
           THEN UNCHANGED <<flow_stats_map, network_stats_map>>
           ELSE /\ flow_stats_map' =
                      Put(flow_stats_map, key,
                          [flow_stats_map[key] EXCEPT
                              !.latency_sum = @ + rtt,
                              !.latency_count = @ + 1])
                /\ network_stats_map' =
                      update_network_stats(network_stats_map,
                                           NET_STAT_LATENCY_SAMPLES, 1)

\* The fields of the tcp_probe tracepoint: the addresses, and the ports as
\* numbers.
ProbeCtxs ==
    { [saddr |-> conn.saddr, daddr |-> conn.daddr, sport |-> conn.sport,
       dport |-> conn.dport] : conn \in Conns }

\* trace_tcp_probe
trace_tcp_probe(c, cg, ctx) ==
    LET key == FlowKey(ctx.saddr, ctx.daddr, ctx.sport, ctx.dport, IPPROTO_TCP, cg)
        rtt == ktime - latency_map[key]
    IN  /\ ProbeEntry(c)
        /\ UNCHANGED <<monVars, aggVars, clock, cpu, container_map,
                       pid_to_cgroup_map, events, stats_map, network_events, libVars>>
        /\ IF key.cgroup_id = 0 \/ key \notin DOMAIN latency_map
           THEN UNCHANGED <<flow_stats_map, latency_map, network_stats_map>>
           ELSE /\ IF key \in DOMAIN flow_stats_map
                   THEN /\ flow_stats_map' =
                              Put(flow_stats_map, key,
                                  [flow_stats_map[key] EXCEPT
                                      !.latency_sum = @ + rtt,
                                      !.latency_count = @ + 1])
                        /\ network_stats_map' =
                              update_network_stats(network_stats_map,
                                                   NET_STAT_LATENCY_SAMPLES, 1)
                   ELSE UNCHANGED <<flow_stats_map, network_stats_map>>
                /\ latency_map' = Del(latency_map, key)

(***************************************************************************)
(* The state after NewMonitor, and the specifications.                     *)
(***************************************************************************)
\* The kernel side before any probe has run: empty maps, zeroed arrays.
KernelMapsEmpty ==
    /\ container_map = <<>>
    /\ pid_to_cgroup_map = <<>>
    /\ events = <<>>
    /\ stats_map = [i \in 0..(StatsEntries - 1) |-> 0]
    /\ flow_stats_map = <<>>
    /\ latency_map = <<>>
    /\ network_events = <<>>
    /\ network_stats_map = [i \in 0..(NetStatsEntries - 1) |-> 0]
    /\ cpu = [c \in CPUs |-> IdleCpu]

InitKernel ==
    /\ KernelMapsEmpty
    /\ ktime = 1

(***************************************************************************)
(* MemoryManager (memory.go): the object pools NewMemoryManager creates.   *)
(* A pool is a buffered channel of maxSize objects and three counters.     *)
(* Memory is counted in KiB.                                               *)
(***************************************************************************)
PoolNames == {"container_metrics", "flow_keys", "flow_stats", "event_data",
              "byte_buffers"}

\* createDefaultPools: the maxSize of each pool
PoolMaxSize(name) ==
    CASE name = "container_metrics" -> 100
      [] name = "flow_keys" -> 1000
      [] name = "flow_stats" -> 1000
      [] name = "event_data" -> 500
      [] name = "byte_buffers" -> 200

\* CreatePool: an empty channel of capacity maxSize, counters at 0
NewPool(name) ==
    [objects |-> 0, maxSize |-> PoolMaxSize(name), created |-> 0, hits |-> 0,
     misses |-> 0]

\* No call of OptimizeMemory is under way.  sizes holds the poolSize the
\* last call of clearObjectPools read for every pool it has gone through.
NoSweep == [pc |-> "idle", todo |-> {}, pool |-> "", left |-> 0, sizes |-> <<>>]

\* NewMemoryOptimizer(maxMemory): the manager with its default pools
NewMemoryOptimizer ==
    /\ pools = [name \in PoolNames |-> NewPool(name)]
    /\ currentMemory = 0
    /\ gcCount = 0
    /\ sweep = NoSweep
    /\ holding = [name \in PoolNames |-> 0]

(***************************************************************************)
(* RuntimeDetector (runtime.go).  A line of a cgroup file is a sequence of *)
(* pieces of text: a signature of a runtime, or text that holds none.      *)
(***************************************************************************)
NoCall == [op |-> "none", arg |-> "", at |-> 0, err |-> FALSE, value |-> <<>>]

\* NewRuntimeDetector, on a host whose processes are in no cgroup of a
\* container
NewRuntimeDetector ==
    /\ rdLastScan = 0
    /\ rdDetected = <<>>
    /\ rdReturned = NoCall
    /\ procFiles = [pid \in Pids |->
                       [exists |-> TRUE, lines |-> << <<"0::/init.scope">> >>]]

\* No configuration file, and no call of Load yet
NoConfig ==
    /\ cfgFile = [kind |-> "missing"]
    /\ cfgLoaded = [op |-> "none"]

\* NewProcessManager: nothing run, nothing sent, no call yet
NoKill ==
    /\ issued = <<>>
    /\ killRet = [op |-> "none", err |-> "nil"]

\* NewTerminalRenderer: sorted by CPU, largest first, the first row selected
\* Threads that take the user-space locks
NThreads == 2
Threads == 1..NThreads

\* No thread is inside an operation
NoLockOps ==
    lockpc = [t \in Threads |-> [op |-> [fn |-> "idle", pool |-> "none"], pc |-> 0]]

\* No call of GetAggregatedMetrics has returned
NoAggregatorHeld == aggHeld = [op |-> "none"]

\* No sample event has been handled
SampleKinds == {"cpu", "memory"}

NoSamples ==
    arrived = [cg \in EventCgroups |->
                  [kind \in SampleKinds |->
                      [n |-> 0, kept |-> <<>>, err |-> "none"]]]

\* time.Now() moves on by this much at a time, in seconds
TimeStep == 10

\* NewRenderCache
NewRenderCache(cacheDuration) ==
    /\ rcache = [lastMetrics |-> [nil |-> TRUE], lastRenderTime |-> 0,
                 cached |-> [nil |-> TRUE], cacheValid |-> FALSE,
                 cacheDuration |-> cacheDuration]
    /\ cacheRet = [op |-> "none"]

FreshCache == NewRenderCache(TimeStep)

NewTerminalRenderer ==
    /\ selectedIndex = 0
    /\ sortBy = "cpu"
    /\ sortDesc = TRUE
    /\ showKillDialog = FALSE
    /\ killConfirm = FALSE
    /\ highlighted = ""

LibInit ==
    /\ NewMemoryOptimizer
    /\ NewRuntimeDetector
    /\ NoConfig
    /\ NoKill
    /\ NewTerminalRenderer
    /\ NoLockOps
    /\ NoAggregatorHeld
    /\ NoSamples
    /\ FreshCache

Init ==
    /\ running = FALSE
    /\ startTime = 0
    /\ links = <<>>
    /\ coll = NilColl
    /\ metrics = NewMetrics
    /\ processorRunning = FALSE
    /\ ctxDone = FALSE
    /\ tasks = [k \in Kinds |-> [pos \in Positions |-> 0]]
    /\ crashed = FALSE
    /\ ret = Returned("none", "nil")
    /\ rpc = [r \in Readers |-> "idle"]
    /\ held = [r \in Readers |-> NoSnapshot]
    /\ containerMetrics = <<>>
    /\ networkMetrics = <<>>
    /\ systemMetrics = [TotalContainers |-> 0, ActiveContainers |-> 0]
    /\ lastReset = 1
    /\ clock = 1
    /\ InitKernel
    /\ LibInit

Next ==
    \/ \E load \in LoadOutcomes :
           \E failAt \in FailPoints(load) : MonitorStart(load, failAt)
    \/ MonitorStop
    \/ MonitorClose
    \/ PumpTick
    \/ AggregatorTick
    \/ ReaperTick
    \/ \E k \in ProcessorKinds : ProcessorTaskExit(k)
    \/ CollectorTick
    \/ CollectorLock
    \/ \E out \in ReadOutcomes : CollectorUpdate(out)

Spec == Init /\ [][Next]_vars

\* The snapshot store: the lifecycle calls, the update cycles and the
\* callers of GetMetrics.  The goroutines of the DataProcessor touch neither
\* m.mu nor m.metrics and take no step here.
SnapNext ==
    \/ \E load \in LoadOutcomes :
           \E failAt \in FailPoints(load) : MonitorStart(load, failAt)
    \/ MonitorStop
    \/ MonitorClose
    \/ CollectorTick
    \/ CollectorLock
    \/ \E out \in ReadOutcomes : CollectorUpdate(out)
    \/ \E r \in Readers : GetMetricsCall(r)
    \/ \E r \in Readers : GetMetricsAcquire(r)
    \/ \E r \in Readers : GetMetricsReturn(r)

SnapSpec == Init /\ [][SnapNext]_vars

\* Spec with the fairness the Go runtime and the tickers give: a goroutine
\* whose context is cancelled gets to see it, a collector gets its tick, and
\* a goroutine that can take m.mu, or holds it, goes on.
LiveSpec ==
    /\ Init /\ [][Next]_vars
    /\ \A k \in ProcessorKinds : WF_vars(ProcessorTaskExit(k))
    /\ WF_vars(CollectorTick)
    /\ WF_vars(CollectorLock)
    /\ WF_vars(\E out \in ReadOutcomes : CollectorUpdate(out))

\* The aggregator alone: the handlers of p.eventHandlers applied to events,
\* in any order.
AggNext ==
    \/ \E cg \in StartCgroups, pid \in EventPids :
           HandleEvent(Event(EVENT_CONTAINER_START, cg, pid))
    \/ \E cg \in EventCgroups, pid \in EventPids :
           HandleEvent(Event(EVENT_CONTAINER_STOP, cg, pid))
    \/ \E cg \in EventCgroups, pid \in EventPids :
           HandleEvent(Event(EVENT_NETWORK_PACKET, cg, pid))
    \/ \E cg \in EventCgroups, pid \in EventPids :
           HandleEvent(Event(EVENT_CPU_SAMPLE, cg, pid))
    \/ \E cg \in EventCgroups, pid \in EventPids :
           HandleEvent(Event(EVENT_MEMORY_SAMPLE, cg, pid))

SpecAgg == Init /\ [][AggNext]_vars

\* The kernel side of a running monitor: the state after NewMonitor and a
\* Start that loaded both objects and attached every program (the TC
\* programs are attached by hand), then the probes, on any CPU, for any
\* task, in any order.
FullColl ==
    [loaded |-> TRUE, progs |-> LifecyclePrograms \cup NetworkPrograms,
     maps |-> MapNames]

StartedMonitor ==
    /\ running = TRUE
    /\ startTime = 1
    /\ links = AttachOrder
    /\ coll = FullColl
    /\ metrics = NewMetrics
    /\ processorRunning = TRUE
    /\ ctxDone = FALSE
    /\ tasks = [k \in Kinds |->
                  [pos \in Positions |->
                      IF pos = (IF k = "collector" THEN "wait" ELSE "select")
                      THEN 1 ELSE 0]]
    /\ crashed = FALSE
    /\ ret = Returned("Start", "nil")
    /\ rpc = [r \in Readers |-> "idle"]
    /\ held = [r \in Readers |-> NoSnapshot]
    /\ containerMetrics = <<>>
    /\ networkMetrics = <<>>
    /\ systemMetrics = [TotalContainers |-> 0, ActiveContainers |-> 0]
    /\ lastReset = 1
    /\ clock = 1

Started ==
    /\ StartedMonitor
    /\ InitKernel
    /\ LibInit

ProbeNext ==
    \/ \E c \in CPUs, cg \in Cgroups, pid \in Pids : trace_container_start(c, cg, pid)
    \/ \E c \in CPUs : CloneInsert(c)
    \/ \E c \in CPUs : CloneSend(c)
    \/ \E c \in CPUs, cg \in Cgroups, pid \in Pids : trace_container_stop(c, cg, pid)
    \/ \E c \in CPUs, cg \in Cgroups, pid \in Pids : kprobe_cgroup_attach(c, cg, pid)
    \/ \E c \in CPUs, cg \in Cgroups, pid \in Pids : trace_process_exec(c, cg, pid)
    \/ \E c \in CPUs, cg \in Cgroups, pkt \in Packets : tc_ingress(c, cg, pkt)
    \/ \E c \in CPUs, cg \in Cgroups, pkt \in Packets : tc_egress(c, cg, pkt)
    \/ \E c \in CPUs, cg \in Cgroups, pid \in Pids, sk \in Socks, junk \in UninitData :
           kprobe_tcp_retransmit(c, cg, pid, sk, junk)
    \/ \E c \in CPUs, cg \in Cgroups, ctx \in ProbeCtxs : trace_tcp_probe(c, cg, ctx)

SpecProbe == Started /\ [][ProbeNext]_vars

(***************************************************************************)
(* Properties of the lifecycle.                                            *)
(***************************************************************************)
Unloaded == links = <<>> /\ ~coll.loaded /\ ~running

AllTasksDone == \A k \in Kinds : Live(k) = 0

\* C1: Start called while the monitor is running returns an error and leaves
\* the running flag, the start time, the links, the collection and the
\* spawned goroutines as they were; Stop or Close called while the monitor is
\* not running returns nil and leaves them as they were.
C1_NoOpCalls ==
    [][ /\ (running /\ \E load \in LoadOutcomes :
                          \E failAt \in FailPoints(load) : MonitorStart(load, failAt))
           => /\ ret'.op = "Start" /\ ret'.err # "nil"
              /\ UNCHANGED <<running, startTime, links, coll, tasks,
                             processorRunning, ctxDone>>
        /\ (~running /\ (MonitorStop \/ MonitorClose))
           => /\ ret'.err = "nil"
              /\ UNCHANGED <<running, startTime, links, coll, tasks,
                             processorRunning, ctxDone>> ]_vars

\* A running monitor whose last call was a Start that was turned down.
C1_Witness ==
    /\ running /\ Live("collector") = 1
    /\ ret = Returned("Start", "already running")

\* C2, as stated: whenever the last call was a Stop, or a Start that returned
\* an error, the monitor is unloaded.
C2_AsStated ==
    (ret.op = "Stop" \/ (ret.op = "Start" /\ ret.err # "nil")) => Unloaded

\* C2, amended: whenever the last call was a Stop, or a Start that returned
\* an error other than the one for a monitor already running, the monitor is
\* unloaded: no link, no collection, not running.
C2_UnloadedAfterStopOrFailedStart ==
    (\/ ret.op = "Stop"
     \/ (ret.op = "Start" /\ ret.err \notin {"nil", "already running"}))
    => Unloaded

\* A Start that failed at its last attach, after a run that was stopped.
C2_Witness ==
    /\ ret = Returned("Start", "attach failed")
    /\ NStarts > 0
    /\ Unloaded

(***************************************************************************)
(* Properties of the snapshot store.                                       *)
(***************************************************************************)
\* C3, as stated: what a reader reads through a snapshot it holds is the
\* outcome of one update cycle: the container list is the one written by the
\* cycle that wrote the publish time.
C3_OneCompleteUpdate ==
    \A r \in Readers :
        held[r].valid => View(held[r]).cycle = View(held[r]).LastUpdate

\* C4: every update cycle that completes publishes a LastUpdate strictly
\* greater than the one before it, and the LastUpdate of the snapshots one
\* reader gets never decreases from one GetMetrics call to the next.
C4_Monotonic ==
    [][ /\ ((\E out \in ReadOutcomes : CollectorUpdate(out)) /\ ~crashed')
           => metrics'.LastUpdate > metrics.LastUpdate
        /\ \A r \in Readers :
              held[r].valid
              => View(held[r])'.LastUpdate >= View(held[r]).LastUpdate ]_vars

\* A reader holds the snapshot of one update cycle and a later cycle has
\* published since.
C4_Witness ==
    \E r \in Readers :
        /\ held[r].valid
        /\ held[r].snap.LastUpdate > 0
        /\ metrics.LastUpdate > held[r].snap.LastUpdate

\* C5, as stated: no update cycle waits for m.mu while a GetMetrics call
\* holds it, and no GetMetrics call waits for m.mu while an update cycle
\* holds it.
C5_NeverWait ==
    /\ ~(WriterWaits /\ ReadersHold)
    /\ ~(WriterHolds /\ \E r \in Readers : rpc[r] = "rlock")

\* C6: once Stop has returned with the monitor stopped, then, unless a Start
\* sets it running again, every goroutine Start has spawned ends: it returns,
\* or the process dies of a panic and takes every goroutine with it.
C6_TasksTerminate ==
    (ret.op = "Stop" /\ ~running) ~> (running \/ crashed \/ AllTasksDone)

\* A monitor that has run and was stopped, every goroutine returned.
C6_Witness ==
    /\ ret.op = "Stop" /\ ~running /\ ~crashed
    /\ NStarts > 0
    /\ AllTasksDone

\* C7, as stated: a running monitor has its pump, its aggregator and its
\* reaper at their select, after the first Start and after every later one.
C7_RunningHasLiveTasks ==
    (running /\ ~crashed) => \A k \in ProcessorKinds : At(k, "select") > 0

(***************************************************************************)
(* Properties of the aggregator.                                           *)
(***************************************************************************)
\* C8: every aggregated container record holds at most 100 CPU samples and
\* at most 100 memory samples.
C8_SampleBuffersBounded ==
    \A cg \in DOMAIN containerMetrics :
        /\ Len(containerMetrics[cg].CPUSamples) <= 100
        /\ Len(containerMetrics[cg].MemorySamples) <= 100

\* A record with both buffers full.
C8_Witness ==
    \E cg \in DOMAIN containerMetrics :
        /\ Len(containerMetrics[cg].CPUSamples) = 100
        /\ Len(containerMetrics[cg].MemorySamples) = 100

(***************************************************************************)
(* Properties of the kernel probes.                                        *)
(***************************************************************************)
\* C9, as stated: a run of any of the eight probes for a task whose cgroup
\* id is 0 or 1 leaves every map, counter and ring buffer as it was.
C9_RootCgroupsIgnored ==
    [][ \A c \in CPUs, cg \in {0, 1} :
          (\/ \E pid \in Pids :
                 \/ trace_container_start(c, cg, pid)
                 \/ trace_container_stop(c, cg, pid)
                 \/ kprobe_cgroup_attach(c, cg, pid)
                 \/ trace_process_exec(c, cg, pid)
           \/ \E pkt \in Packets : tc_ingress(c, cg, pkt) \/ tc_egress(c, cg, pkt)
           \/ \E pid \in Pids, sk \in Socks, junk \in UninitData :
                 kprobe_tcp_retransmit(c, cg, pid, sk, junk)
           \/ \E ctx \in ProbeCtxs : trace_tcp_probe(c, cg, ctx))
          => UNCHANGED kernelMaps ]_vars

\* C10, as stated: the clone probe writes its entry only while the table
\* holds none for the cgroup, every insertion puts one container-start
\* event in the ring, and a clone probe entered while the table holds an
\* entry changes neither the table nor the ring.
C10_AsStated ==
    [][ \A c \in CPUs :
          /\ CloneInsert(c) => cpu[c].cgroup_id \notin DOMAIN container_map
          /\ CloneSend(c) => Len(events') = Len(events) + 1
          /\ \A cg \in Cgroups, pid \in Pids :
                (trace_container_start(c, cg, pid) /\ cg \in DOMAIN container_map)
                => UNCHANGED <<container_map, events>> /\ cpu'[c].pc = "idle" ]_vars

\* C10, amended: the clone probe goes on to insert exactly when its cgroup
\* id is a container's and its own lookup found no entry; its insertion
\* writes the entry of its cgroup id alone, with status created and the
\* calling pid; it then puts one container-start event for that cgroup id
\* and pid in the ring and counts it as sent, or, the ring having no room,
\* puts none and counts one dropped event; a clone probe whose lookup finds
\* an entry changes neither the table nor the ring.
C10_CloneInsertsWhenLookupFoundNone ==
    [][ \A c \in CPUs :
          /\ \A cg \in Cgroups, pid \in Pids :
                trace_container_start(c, cg, pid)
                => /\ UNCHANGED <<container_map, events, stats_map>>
                   /\ (cpu'[c].pc = "insert")
                         <=> (is_container_process(cg)
                              /\ cg \notin DOMAIN container_map)
          /\ CloneInsert(c)
             => LET cg == cpu[c].cgroup_id IN
                /\ DOMAIN container_map' = DOMAIN container_map \cup {cg}
                /\ container_map'[cg].status = CONTAINER_STATUS_CREATED
                /\ container_map'[cg].pid = cpu[c].pid
                /\ container_map'[cg].cgroup_id = cg
                /\ \A k \in DOMAIN container_map \ {cg} :
                      container_map'[k] = container_map[k]
                /\ UNCHANGED <<events, stats_map>>
          /\ CloneSend(c)
             => /\ UNCHANGED container_map
                /\ stats_map'[STAT_CONTAINERS_CREATED]
                      = stats_map[STAT_CONTAINERS_CREATED] + 1
                /\ IF RingFull(events)
                   THEN /\ events' = events
                        /\ stats_map'[STAT_EVENTS_DROPPED]
                              = stats_map[STAT_EVENTS_DROPPED] + 1
                   ELSE /\ Len(events') = Len(events) + 1
                        /\ SubSeq(events', 1, Len(events)) = events
                        /\ events'[Len(events')].type = EVENT_CONTAINER_START
                        /\ events'[Len(events')].cgroup_id = cpu[c].cgroup_id
                        /\ events'[Len(events')].pid = cpu[c].pid
                        /\ stats_map'[STAT_EVENTS_SENT]
                              = stats_map[STAT_EVENTS_SENT] + 1 ]_vars

\* One clone probe has inserted the entry of a cgroup and sent its event,
\* and a clone probe of another process of that cgroup has come and gone.
C10_Witness ==
    /\ \A c \in CPUs : cpu[c].pc = "idle"
    /\ \E cg \in DOMAIN container_map :
          /\ container_map[cg].status = CONTAINER_STATUS_CREATED
          /\ stats_map[STAT_CONTAINERS_CREATED] = 1
          /\ Len(events) = 1
          /\ events[1].type = EVENT_CONTAINER_START
          /\ events[1].pid = container_map[cg].pid
          /\ \E pid \in DOMAIN pid_to_cgroup_map :
                pid # container_map[cg].pid /\ pid_to_cgroup_map[pid] = cg

(***************************************************************************)
(* The lifecycle probes alone: the probes of container_trace.c on any CPU, *)
(* for any task, in any order, from the moment they are attached.  The     *)
(* kernel clock is counted from that moment.                               *)
(***************************************************************************)
MonitorRunning ==
    /\ StartedMonitor
    /\ KernelMapsEmpty
    /\ ktime = 0

ProbesAttached ==
    /\ MonitorRunning
    /\ LibInit

LifecycleNext ==
    \/ \E c \in CPUs, cg \in Cgroups, pid \in Pids : trace_container_start(c, cg, pid)
    \/ \E c \in CPUs : CloneInsert(c)
    \/ \E c \in CPUs : CloneSend(c)
    \/ \E c \in CPUs, cg \in Cgroups, pid \in Pids : trace_container_stop(c, cg, pid)
    \/ \E c \in CPUs, cg \in Cgroups, pid \in Pids : kprobe_cgroup_attach(c, cg, pid)
    \/ \E c \in CPUs, cg \in Cgroups, pid \in Pids : trace_process_exec(c, cg, pid)

SpecLifecycle == ProbesAttached /\ [][LifecycleNext]_vars

\* The exiting pid is the primary pid of the entry of the current cgroup.
PrimaryExit(cg, pid) ==
    /\ cg \in DOMAIN container_map
    /\ container_map[cg].pid = pid

\* The ring has grown by one container-stop record of this cgroup and pid
\* that carries the entry with status stopped.
StopEventEmitted(cg, pid) ==
    /\ Len(events') = Len(events) + 1
    /\ SubSeq(events', 1, Len(events)) = events
    /\ events'[Len(events')].type = EVENT_CONTAINER_STOP
    /\ events'[Len(events')].cgroup_id = cg
    /\ events'[Len(events')].pid = pid
    /\ events'[Len(events')].data
          = [container_map[cg] EXCEPT !.status = CONTAINER_STATUS_STOPPED]

\* The entry of the cgroup and the pid-map entry of the pid are gone and
\* every other entry is as it was.
StopEntriesDeleted(cg, pid) ==
    /\ container_map' = Del(container_map, cg)
    /\ cg \notin DOMAIN container_map'
    /\ pid_to_cgroup_map' = Del(pid_to_cgroup_map, pid)
    /\ pid \notin DOMAIN pid_to_cgroup_map'

\* C11, as stated: the exit of the primary pid of the entry of the current
\* cgroup puts one container-stop event with status stopped in the ring and
\* deletes the container entry and the pid-map entry of that pid; the exit
\* of any other pid leaves the container table, the pid map and the ring as
\* they were.
C11_AsStated ==
    [][ \A c \in CPUs, cg \in Cgroups, pid \in Pids :
          trace_container_stop(c, cg, pid)
          => IF PrimaryExit(cg, pid)
             THEN StopEventEmitted(cg, pid) /\ StopEntriesDeleted(cg, pid)
             ELSE UNCHANGED <<container_map, pid_to_cgroup_map, events>> ]_vars

\* C11, amended: the exit of the primary pid of the entry of the current
\* cgroup deletes the container entry and the pid-map entry of that pid,
\* counts one stopped container, and puts one container-stop event with
\* status stopped in the ring and counts it as sent, or, the ring having no
\* room, puts none and counts one dropped event; the exit of any other pid
\* leaves the container table, the pid map, the ring and the counters as
\* they were.
C11_ExitOfPrimaryPidStopsContainer ==
    [][ \A c \in CPUs, cg \in Cgroups, pid \in Pids :
          trace_container_stop(c, cg, pid)
          => IF PrimaryExit(cg, pid)
             THEN /\ StopEntriesDeleted(cg, pid)
                  /\ stats_map'[STAT_CONTAINERS_STOPPED]
                        = stats_map[STAT_CONTAINERS_STOPPED] + 1
                  /\ IF RingFull(events)
                     THEN /\ events' = events
                          /\ stats_map'[STAT_EVENTS_DROPPED]
                                = stats_map[STAT_EVENTS_DROPPED] + 1
                          /\ stats_map'[STAT_EVENTS_SENT]
                                = stats_map[STAT_EVENTS_SENT]
                     ELSE /\ StopEventEmitted(cg, pid)
                          /\ stats_map'[STAT_EVENTS_SENT]
                                = stats_map[STAT_EVENTS_SENT] + 1
                          /\ stats_map'[STAT_EVENTS_DROPPED]
                                = stats_map[STAT_EVENTS_DROPPED]
             ELSE UNCHANGED <<container_map, pid_to_cgroup_map, events,
                              stats_map>> ]_vars

\* A container was created by one pid, another pid of the cgroup was seen
\* and has its pid-map entry, and the primary pid has exited: the entry is
\* gone, the stop event follows the start event in the ring, and the other
\* pid's entry is still in the pid map.
C11_Witness ==
    /\ container_map = <<>>
    /\ stats_map[STAT_CONTAINERS_STOPPED] = 1
    /\ Len(events) = 2
    /\ events[1].type = EVENT_CONTAINER_START
    /\ events[2].type = EVENT_CONTAINER_STOP
    /\ events[2].data.status = CONTAINER_STATUS_STOPPED
    /\ events[2].pid = events[1].pid
    /\ events[2].pid \notin DOMAIN pid_to_cgroup_map
    /\ \E pid \in DOMAIN pid_to_cgroup_map :
          pid_to_cgroup_map[pid] = events[2].cgroup_id

\* C12: while the entry of a cgroup stays in the container table its status
\* changes only from created to running, and only in a step of the exec or
\* the cgroup-attach probe of that cgroup; the cgroup-attach probe puts one
\* event in the ring when it promotes the entry and none otherwise.
C12_StatusOnlyPromoted ==
    [][ /\ \A cg \in DOMAIN container_map \cap DOMAIN container_map' :
              container_map'[cg].status # container_map[cg].status
              => /\ container_map[cg].status = CONTAINER_STATUS_CREATED
                 /\ container_map'[cg].status = CONTAINER_STATUS_RUNNING
                 /\ \E c \in CPUs, pid \in Pids :
                       \/ kprobe_cgroup_attach(c, cg, pid)
                       \/ trace_process_exec(c, cg, pid)
        /\ \A c \in CPUs, cg \in Cgroups, pid \in Pids :
              kprobe_cgroup_attach(c, cg, pid)
              => IF /\ cg \in DOMAIN container_map
                    /\ container_map[cg].status = CONTAINER_STATUS_CREATED
                 THEN /\ container_map'[cg].status = CONTAINER_STATUS_RUNNING
                      /\ Len(events') = Len(events) + 1
                 ELSE UNCHANGED <<container_map, events>> ]_vars

(***************************************************************************)
(* The network probes alone: the programs of network_monitor.c for the    *)
(* tasks of the container cgroups, in any order, from the moment they are  *)
(* attached.                                                               *)
(***************************************************************************)
\* Each of these probes is one step, so the CPU it runs on makes no
\* difference: they run one after another on one CPU.
OneCpu == {CHOOSE c \in CPUs : \A d \in CPUs : c <= d}

\* The cgroups whose tasks the probes take for container processes.
ContainerCgroups == {cg \in Cgroups : is_container_process(cg)}

NetworkNext ==
    \/ \E c \in OneCpu, cg \in ContainerCgroups, pkt \in Packets : tc_ingress(c, cg, pkt)
    \/ \E c \in OneCpu, cg \in ContainerCgroups, pkt \in Packets : tc_egress(c, cg, pkt)
    \/ \E c \in OneCpu, cg \in ContainerCgroups, pid \in Pids, sk \in Socks,
           junk \in UninitData :
           kprobe_tcp_retransmit(c, cg, pid, sk, junk)
    \/ \E c \in OneCpu, cg \in ContainerCgroups, ctx \in ProbeCtxs : trace_tcp_probe(c, cg, ctx)

SpecNetwork == ProbesAttached /\ [][NetworkNext]_vars

\* A counter of dropped events has grown by one: STAT_EVENTS_DROPPED of
\* stats_map, or any counter of network_stats_map other than the one of
\* retransmits, which the retransmit probe advances on every run.
DropCounted ==
    \/ stats_map'[STAT_EVENTS_DROPPED] = stats_map[STAT_EVENTS_DROPPED] + 1
    \/ \E i \in DOMAIN network_stats_map \ {NET_STAT_TCP_RETRANSMITS} :
          network_stats_map'[i] = network_stats_map[i] + 1

\* C13: a probe that finds no room in its ring buffer, the lifecycle ring
\* or the network ring, adds one to the dropped-events counter, leaves the
\* ring as it was, and carries out its map updates as it does otherwise.
C13_FailedReservationCounted ==
    [][ /\ \A c \in CPUs :
              (CloneSend(c) /\ RingFull(events))
              => /\ events' = events
                 /\ stats_map'[STAT_EVENTS_DROPPED]
                       = stats_map[STAT_EVENTS_DROPPED] + 1
        /\ \A c \in CPUs, cg \in Cgroups, pid \in Pids :
              /\ (trace_container_stop(c, cg, pid) /\ PrimaryExit(cg, pid)
                     /\ RingFull(events))
                 => /\ events' = events
                    /\ stats_map'[STAT_EVENTS_DROPPED]
                          = stats_map[STAT_EVENTS_DROPPED] + 1
                    /\ StopEntriesDeleted(cg, pid)
              /\ (kprobe_cgroup_attach(c, cg, pid) /\ cg \in DOMAIN container_map
                     /\ container_map[cg].status = CONTAINER_STATUS_CREATED
                     /\ RingFull(events))
                 => /\ events' = events
                    /\ stats_map'[STAT_EVENTS_DROPPED]
                          = stats_map[STAT_EVENTS_DROPPED] + 1
                    /\ container_map'[cg].status = CONTAINER_STATUS_RUNNING
        /\ \A c \in CPUs, cg \in Cgroups, pid \in Pids, sk \in Socks,
                 junk \in UninitData :
              (kprobe_tcp_retransmit(c, cg, pid, sk, junk) /\ ~sk.null
                 /\ is_container_process(cg) /\ RingFull(network_events))
              => /\ network_events' = network_events
                 /\ DropCounted
                 /\ network_stats_map'[NET_STAT_TCP_RETRANSMITS]
                       = network_stats_map[NET_STAT_TCP_RETRANSMITS] + 1 ]_vars

\* The sum of one field over the flow entries of a set of keys.
RECURSIVE FlowSum(_, _)
FlowSum(keys, field) ==
    IF keys = {} THEN 0
    ELSE LET k == CHOOSE x \in keys : TRUE
         IN  flow_stats_map[k][field] + FlowSum(keys \ {k}, field)

\* The flow entry of a key before a step, all zero when there is none.
FlowBefore(key) ==
    IF key \in DOMAIN flow_stats_map THEN flow_stats_map[key] ELSE ZeroFlowStats

HasFlag(flags, bit) == (flags \div bit) % 2 = 1

\* A TC program has counted one packet of the given size on the key: the
\* entry exists, has one packet and packet_size bytes more than before, has
\* the direction bit and every bit it had, and no other entry has changed.
TCObserved(key, packet_size, flag) ==
    /\ key \in DOMAIN flow_stats_map'
    /\ flow_stats_map'[key].packets = FlowBefore(key).packets + 1
    /\ flow_stats_map'[key].bytes = FlowBefore(key).bytes + packet_size
    /\ HasFlag(flow_stats_map'[key].flags, flag)
    /\ \A bit \in {FLOW_FLAG_INBOUND, FLOW_FLAG_OUTBOUND, FLOW_FLAG_RETRANSMIT} :
          HasFlag(FlowBefore(key).flags, bit)
          => HasFlag(flow_stats_map'[key].flags, bit)
    /\ DOMAIN flow_stats_map' = DOMAIN flow_stats_map \cup {key}
    /\ \A k \in DOMAIN flow_stats_map \ {key} :
          flow_stats_map'[k] = flow_stats_map[k]

\* The TC programs alone, one packet after another, for the tasks of the
\* container cgroups.
TCNext ==
    \/ \E c \in OneCpu, cg \in ContainerCgroups, pkt \in Packets :
           tc_ingress(c, cg, pkt)
    \/ \E c \in OneCpu, cg \in ContainerCgroups, pkt \in Packets :
           tc_egress(c, cg, pkt)

SpecTC == ProbesAttached /\ [][TCNext]_vars

\* C14: every TC observation of an accepted packet on a flow key of a
\* container cgroup adds one to the packets and the packet size to the bytes
\* of the flow entry, starting from zero when the entry is new, and sets the
\* bit of its direction without clearing any.  So after n observations
\* packets = n and bytes = the sum of the n sizes: over all entries they add
\* up to the packets and bytes the TC programs have counted globally, and no
\* entry exists with zero packets.
C14_TCCountsEveryPacket ==
    /\ [](/\ \A key \in DOMAIN flow_stats_map : flow_stats_map[key].packets >= 1
          /\ FlowSum(DOMAIN flow_stats_map, "packets")
                = network_stats_map[NET_STAT_PACKETS_IN]
                  + network_stats_map[NET_STAT_PACKETS_OUT]
          /\ FlowSum(DOMAIN flow_stats_map, "bytes")
                = network_stats_map[NET_STAT_BYTES_IN]
                  + network_stats_map[NET_STAT_BYTES_OUT])
    /\ [][ \A c \in OneCpu, cg \in ContainerCgroups, pkt \in Packets :
             LET parsed == parse_packet(pkt)
                 key == [parsed.key EXCEPT !.cgroup_id = cg]
             IN  parsed.rc >= 0
                 => /\ tc_ingress(c, cg, pkt)
                       => TCObserved(key, pkt.tot_len, FLOW_FLAG_INBOUND)
                    /\ tc_egress(c, cg, pkt)
                       => TCObserved(key, pkt.tot_len, FLOW_FLAG_OUTBOUND) ]_vars

\* Three packets of two sizes were seen on one flow key of a container
\* cgroup, in both directions.
C14_Witness ==
    \E key \in DOMAIN flow_stats_map :
       /\ is_container_process(key.cgroup_id)
       /\ flow_stats_map[key].packets = 3
       /\ flow_stats_map[key].bytes = 140
       /\ HasFlag(flow_stats_map[key].flags, FLOW_FLAG_INBOUND)
       /\ HasFlag(flow_stats_map[key].flags, FLOW_FLAG_OUTBOUND)

(***************************************************************************)
(* The TC programs helper by helper, for runs that overlap on several      *)
(* CPUs.  A run holds, between its helpers, the key and size it parsed,    *)
(* its direction flag, the timestamp it took, and the pointer its lookup   *)
(* returned.  bpf_map_update_elem on a hash map puts a new element in the  *)
(* place of the old one: a pointer another run holds to the old element    *)
(* no longer leads to the entry of the key (stale), and what that run adds *)
(* through it is added to no entry.                                        *)
(***************************************************************************)
InTC(pc, key, packet_size, proto, flag, timestamp, stale) ==
    [pc |-> pc, key |-> key, packet_size |-> packet_size, proto |-> proto,
     flag |-> flag, timestamp |-> timestamp, stale |-> stale]

\* tc_ingress (flag FLOW_FLAG_INBOUND) or tc_egress (flag FLOW_FLAG_OUTBOUND)
\* up to the first bpf_map_lookup_elem(&flow_stats_map, &key)
tc_lookup(c, cg, pkt, flag) ==
    LET parsed == parse_packet(pkt)
        key == [parsed.key EXCEPT !.cgroup_id = cg]
        run(pc) == InTC(pc, key, parsed.packet_size, parsed.rc, flag, ktime, FALSE)
    IN  /\ ProbeEntry(c)
        /\ UNCHANGED <<monVars, aggVars, clock, container_map, pid_to_cgroup_map,
                       events, stats_map, flow_stats_map, network_events,
                       network_stats_map, libVars>>
        /\ IF parsed.rc < 0 \/ key.cgroup_id = 0
           THEN UNCHANGED <<latency_map, cpu>>
           ELSE /\ latency_map' = IF flag = FLOW_FLAG_OUTBOUND
                                  THEN Put(latency_map, key, ktime)
                                  ELSE latency_map
                /\ cpu' = [cpu EXCEPT ![c] =
                               IF key \in DOMAIN flow_stats_map
                               THEN run("tc_count") ELSE run("tc_insert")]

\* if (!stats): bpf_map_update_elem(&flow_stats_map, &key, &new_stats, BPF_ANY)
tc_insert(c) ==
    /\ cpu[c].pc = "tc_insert"
    /\ flow_stats_map' =
          Put(flow_stats_map, cpu[c].key,
              [ZeroFlowStats EXCEPT
                  !.last_seen = IF cpu[c].flag = FLOW_FLAG_OUTBOUND
                                THEN cpu[c].timestamp ELSE ktime,
                  !.flags = cpu[c].flag])
    /\ cpu' = [d \in CPUs |->
                 IF d = c THEN [cpu[c] EXCEPT !.pc = "tc_relookup"]
                 ELSE IF cpu[d].pc = "tc_count" /\ cpu[d].key = cpu[c].key
                 THEN [cpu[d] EXCEPT !.stale = TRUE]
                 ELSE cpu[d]]
    /\ UNCHANGED <<monVars, aggVars, clock, container_map, pid_to_cgroup_map,
                   events, stats_map, latency_map, network_events,
                   network_stats_map, ktime, libVars>>

\* if (!stats): stats = bpf_map_lookup_elem(&flow_stats_map, &key)
tc_relookup(c) ==
    /\ cpu[c].pc = "tc_relookup"
    /\ cpu' = [cpu EXCEPT ![c].pc = IF cpu[c].key \in DOMAIN flow_stats_map
                                    THEN "tc_count" ELSE "tc_stats"]
    /\ UNCHANGED <<monVars, aggVars, clock, kernelMaps, ktime, libVars>>

\* if (stats) { ... } and the global counters
tc_count(c) ==
    LET key == cpu[c].key
        size == cpu[c].packet_size
        inbound == cpu[c].flag = FLOW_FLAG_INBOUND
        a == update_network_stats(network_stats_map,
                 IF inbound THEN NET_STAT_PACKETS_IN ELSE NET_STAT_PACKETS_OUT, 1)
        b == update_network_stats(a,
                 IF inbound THEN NET_STAT_BYTES_IN ELSE NET_STAT_BYTES_OUT, size)
    IN  /\ cpu[c].pc \in {"tc_count", "tc_stats"}
        /\ flow_stats_map' =
              IF cpu[c].pc = "tc_count" /\ ~cpu[c].stale
              THEN Put(flow_stats_map, key,
                       [flow_stats_map[key] EXCEPT
                           !.packets = @ + 1,
                           !.bytes = @ + size,
                           !.last_seen = IF inbound THEN ktime ELSE cpu[c].timestamp,
                           !.flags = BitOr(@, cpu[c].flag)])
              ELSE flow_stats_map
        /\ network_stats_map' =
              IF inbound /\ cpu[c].proto = IPPROTO_UDP
              THEN update_network_stats(b, NET_STAT_UDP_PACKETS, 1)
              ELSE b
        /\ cpu' = [cpu EXCEPT ![c] = IdleCpu]
        /\ UNCHANGED <<monVars, aggVars, clock, container_map, pid_to_cgroup_map,
                       events, stats_map, latency_map, network_events, ktime, libVars>>

TCRaceNext ==
    \/ \E c \in CPUs, cg \in ContainerCgroups, pkt \in Packets,
           flag \in {FLOW_FLAG_INBOUND, FLOW_FLAG_OUTBOUND} :
           tc_lookup(c, cg, pkt, flag)
    \/ \E c \in CPUs : tc_insert(c)
    \/ \E c \in CPUs : tc_relookup(c)
    \/ \E c \in CPUs : tc_count(c)

SpecTCRace == ProbesAttached /\ [][TCRaceNext]_vars

\* C15: whatever the interleaving of the lookups, inserts and increments of
\* overlapping TC runs, once the runs have ended no count is lost: the
\* packets and the bytes of the flow entries add up to the packets and the
\* bytes of all accepted runs (which the global counters hold), so two runs
\* that raced to create one key leave it with packets = 2 and bytes = the
\* sum of both sizes.
C15_NoCountLost ==
    (\A c \in CPUs : cpu[c].pc = "idle")
    => /\ FlowSum(DOMAIN flow_stats_map, "packets")
             = network_stats_map[NET_STAT_PACKETS_IN]
               + network_stats_map[NET_STAT_PACKETS_OUT]
       /\ FlowSum(DOMAIN flow_stats_map, "bytes")
             = network_stats_map[NET_STAT_BYTES_IN]
               + network_stats_map[NET_STAT_BYTES_OUT]

\* A frame that is not IPv4, or carries neither TCP nor UDP, or ends before
\* the end of its Ethernet, IP or transport header.
Unparsable(pkt) ==
    \/ pkt.h_proto # ETH_P_IP
    \/ pkt.protocol \notin {IPPROTO_TCP, IPPROTO_UDP}
    \/ pkt.len < EthHdrLen + IpHdrLen
    \/ pkt.protocol = IPPROTO_TCP /\ pkt.len < EthHdrLen + pkt.ihl * 4 + TcpHdrLen
    \/ pkt.protocol = IPPROTO_UDP /\ pkt.len < EthHdrLen + pkt.ihl * 4 + UdpHdrLen

\* C16: a TC run on a frame that is not IPv4, or is IPv4 with neither TCP
\* nor UDP, or is too short to parse changes no kernel map: not the flow
\* table, not the pending-latency table, not a global counter.
C16_UnparsablePacketTouchesNothing ==
    [][ \A c \in OneCpu, cg \in ContainerCgroups, pkt \in Packets :
          (Unparsable(pkt) /\ (tc_ingress(c, cg, pkt) \/ tc_egress(c, cg, pkt)))
          => UNCHANGED kernelMaps ]_vars

\* TC runs have taken place for tasks of a container cgroup, each on a
\* frame that was turned away: the tables are empty and the counters zero.
C16_Witness ==
    /\ ktime = MaxKtime
    /\ flow_stats_map = <<>>
    /\ latency_map = <<>>
    /\ \A i \in DOMAIN network_stats_map : network_stats_map[i] = 0

\* C17: a run of the TCP-probe tracepoint for a flow key with a pending
\* timestamp t0 and a flow entry adds (now - t0) to the latency_sum and 1 to
\* the latency_count of that entry, changes no other entry and deletes the
\* pending timestamp; a run for a key without a pending timestamp changes
\* no map.  So an egress timestamp gives at most one sample: the samples
\* taken and the timestamps still pending never number more than the
\* packets seen on egress.
C17_LatencySampledOncePerTimestamp ==
    /\ [](FlowSum(DOMAIN flow_stats_map, "latency_count")
            + Cardinality(DOMAIN latency_map)
          <= network_stats_map[NET_STAT_PACKETS_OUT])
    /\ [][ \A c \in OneCpu, cg \in ContainerCgroups, ctx \in ProbeCtxs :
             LET key == FlowKey(ctx.saddr, ctx.daddr, ctx.sport, ctx.dport,
                                IPPROTO_TCP, cg)
             IN  trace_tcp_probe(c, cg, ctx)
                 => IF key \in DOMAIN latency_map
                    THEN /\ key \notin DOMAIN latency_map'
                         /\ latency_map' = Del(latency_map, key)
                         /\ key \in DOMAIN flow_stats_map
                            => /\ flow_stats_map'[key].latency_sum
                                     = flow_stats_map[key].latency_sum
                                       + (ktime - latency_map[key])
                               /\ flow_stats_map'[key].latency_count
                                     = flow_stats_map[key].latency_count + 1
                               /\ DOMAIN flow_stats_map' = DOMAIN flow_stats_map
                               /\ \A k \in DOMAIN flow_stats_map \ {key} :
                                     flow_stats_map'[k] = flow_stats_map[k]
                    ELSE UNCHANGED kernelMaps ]_vars

\* One packet left on egress, the TCP probe fired for its flow key and took
\* one sample of one clock reading, and a later probe run found nothing
\* pending and took none.
C17_Witness ==
    /\ ktime = 3
    /\ network_stats_map[NET_STAT_PACKETS_OUT] = 1
    /\ network_stats_map[NET_STAT_PACKETS_IN] = 0
    /\ network_stats_map[NET_STAT_TCP_RETRANSMITS] = 0
    /\ latency_map = <<>>
    /\ \E key \in DOMAIN flow_stats_map :
          /\ flow_stats_map[key].latency_count = 1
          /\ flow_stats_map[key].latency_sum = 1

(***************************************************************************)
(* Monitor.readContainerMetrics: user space reads the container table and  *)
(* the flow table.  The kernel hands out each value as the bytes of the C  *)
(* struct, which has padding: 4 bytes after latency_count in flow_stats    *)
(* (48 bytes), 4 bytes after cpu_usage in container_info (128 bytes).  The *)
(* Go structs FlowStats and ContainerInfo are decoded by encoding/binary,  *)
(* field after field without padding (44 and 120 bytes): every field       *)
(* behind the padding is read 4 bytes early.  A library that checks the    *)
(* length refuses the value instead ("strict"); one that does not returns  *)
(* the shifted fields ("packed").  The version of the library is not       *)
(* fixed by the repository.                                                *)
(***************************************************************************)
Unmarshalers == {"packed", "strict"}

\* The high 32-bit word of a 64-bit value.
HighWord(x) == (x \div 65536) \div 65536

\* FlowStats as decoded from a struct flow_stats: TCPRetransmits is read
\* from the high word of last_seen and Flags from tcp_retransmits.  LastSeen
\* (the padding, then the low word of last_seen) is not used by the reader.
FlowStats(stats) ==
    [Packets |-> stats.packets, Bytes |-> stats.bytes,
     LatencySum |-> stats.latency_sum, LatencyCount |-> stats.latency_count,
     TCPRetransmits |-> HighWord(stats.last_seen),
     Flags |-> stats.tcp_retransmits]

\* ContainerInfo as it would be decoded with the padding of the C struct
ContainerInfoAligned(info) ==
    [CgroupID |-> info.cgroup_id, PID |-> info.pid, Comm |-> info.comm,
     StartTime |-> info.start_time, Status |-> info.status]

\* ContainerInfo as decoded from a struct container_info: Status is read
\* from the high word of memory_usage, which no probe writes (it is 0).
ContainerInfo(info) ==
    [CgroupID |-> info.cgroup_id, PID |-> info.pid, Comm |-> info.comm,
     StartTime |-> info.start_time, Status |-> HighWord(0)]

containerStatusToString(status) ==
    CASE status = 1 -> "created"
      [] status = 2 -> "running"
      [] status = 3 -> "paused"
      [] status = 4 -> "stopped"
      [] status = 5 -> "exited"
      [] OTHER -> "unknown"

\* fmt.Sprintf("%x", n)
RECURSIVE Hex(_)
Hex(n) ==
    LET digits == <<"0", "1", "2", "3", "4", "5", "6", "7", "8", "9", "a", "b",
                    "c", "d", "e", "f">>
    IN  IF n < 16 THEN <<digits[n + 1]>>
        ELSE Hex(n \div 16) \o <<digits[(n % 16) + 1]>>

\* calculateNetworkMetrics: the sums over the decoded flow entries of the
\* cgroup.  A refused value ends the iteration at once, and the error of
\* the iterator is not looked at: the sums stay 0.
RECURSIVE SumDecoded(_, _)
SumDecoded(keys, field) ==
    IF keys = {} THEN 0
    ELSE LET k == CHOOSE x \in keys : TRUE
         IN  FlowStats(flow_stats_map[k])[field] + SumDecoded(keys \ {k}, field)

calculateNetworkMetrics(cgroupID, lib) ==
    LET keys == {k \in DOMAIN flow_stats_map : k.cgroup_id = cgroupID}
    IN  IF lib = "strict"
        THEN [TCPRetransmits |-> 0, TotalPackets |-> 0, TotalBytes |-> 0]
        ELSE [TCPRetransmits |-> SumDecoded(keys, "TCPRetransmits"),
              TotalPackets |-> SumDecoded(keys, "Packets"),
              TotalBytes |-> SumDecoded(keys, "Bytes")]

\* readContainerMetrics: one record per entry of the container table, in
\* the order of the iteration; an error when a value is refused.
RECURSIVE ContainerRecords(_, _)
ContainerRecords(cgs, lib) ==
    IF cgs = {} THEN <<>>
    ELSE LET cg == CHOOSE x \in cgs : TRUE
             info == ContainerInfo(container_map[cg])
         IN  << [ID |-> Hex(info.CgroupID), PID |-> info.PID,
                 Status |-> containerStatusToString(info.Status),
                 TCPRetransmits |->
                     calculateNetworkMetrics(info.CgroupID, lib).TCPRetransmits] >>
             \o ContainerRecords(cgs \ {cg}, lib)

readContainerMetrics(lib) ==
    IF lib = "strict" /\ container_map # <<>>
    THEN [err |-> TRUE, list |-> <<>>]
    ELSE [err |-> FALSE, list |-> ContainerRecords(DOMAIN container_map, lib)]

\* The clone probe, the TC programs and the retransmit probe for the tasks
\* of the container cgroups, one run after another.
RetransmitNext ==
    \/ \E c \in OneCpu, cg \in ContainerCgroups, pid \in Pids :
           trace_container_start(c, cg, pid)
    \/ \E c \in OneCpu : CloneInsert(c)
    \/ \E c \in OneCpu : CloneSend(c)
    \/ \E c \in OneCpu, cg \in ContainerCgroups, pkt \in Packets :
           tc_egress(c, cg, pkt)
    \/ \E c \in OneCpu, cg \in ContainerCgroups, pid \in Pids, sk \in Socks,
           junk \in UninitData :
           kprobe_tcp_retransmit(c, cg, pid, sk, junk)

SpecRetransmit == ProbesAttached /\ [][RetransmitNext]_vars

\* The flow keys of a cgroup.
FlowsOf(cg) == {k \in DOMAIN flow_stats_map : k.cgroup_id = cg}

\* A run of the retransmit probe on an existing flow key adds one to the
\* retransmit counter of the entry, sets its retransmit flag and adds one
\* to the global retransmit counter.
RetransmitCounted ==
    \A c \in OneCpu, cg \in ContainerCgroups, pid \in Pids, sk \in Socks,
       junk \in UninitData :
       LET key == FlowKey(sk.skc_rcv_saddr, sk.skc_daddr, sk.skc_num,
                          sk.skc_dport, IPPROTO_TCP, cg)
       IN  (kprobe_tcp_retransmit(c, cg, pid, sk, junk) /\ ~sk.null
              /\ key \in DOMAIN flow_stats_map)
           => /\ flow_stats_map'[key].tcp_retransmits
                    = flow_stats_map[key].tcp_retransmits + 1
              /\ HasFlag(flow_stats_map'[key].flags, FLOW_FLAG_RETRANSMIT)
              /\ network_stats_map'[NET_STAT_TCP_RETRANSMITS]
                    = network_stats_map[NET_STAT_TCP_RETRANSMITS] + 1

\* The snapshot an update cycle would publish now has a record of the
\* cgroup whose tcp_retransmits is the sum of the retransmit counters of
\* the flow entries of the cgroup.
SnapshotReportsRetransmits(cg, lib) ==
    LET snap == UpdateMetrics(readContainerMetrics(lib))
    IN  \E i \in 1..Len(snap.Containers) :
           /\ snap.Containers[i].ID = Hex(cg)
           /\ "TCPRetransmits" \in DOMAIN snap.Containers[i]
           /\ snap.Containers[i].TCPRetransmits
                 = FlowSum(FlowsOf(cg), "tcp_retransmits")

\* C18: every retransmit probe run on an existing flow key adds one to the
\* retransmit counter of the flow and to the global retransmit counter and
\* sets the retransmit flag (so after n runs the counter is n and the
\* global counter has grown by n), and once retransmits are counted for a
\* cgroup with a container record, the next snapshot reports their sum as
\* the tcp_retransmits of that record.
C18_RetransmitsCountedAndReported ==
    /\ [][RetransmitCounted]_vars
    /\ [](\A lib \in Unmarshalers, cg \in DOMAIN container_map :
             FlowSum(FlowsOf(cg), "tcp_retransmits") >= 1
             => SnapshotReportsRetransmits(cg, lib))

\* C18, the kernel half alone.
C18_KernelCountsRetransmits ==
    /\ [][RetransmitCounted]_vars
    /\ [](FlowSum(DOMAIN flow_stats_map, "tcp_retransmits")
            <= network_stats_map[NET_STAT_TCP_RETRANSMITS])

(***************************************************************************)
(* The event pump beside the probes: processEvents ticks every 100 ms and  *)
(* calls readAndProcessEvents, which looks both ring buffers up and hands  *)
(* each to readEventsFromRingBuf, whose body is empty.  The probes fill    *)
(* the rings meanwhile.                                                    *)
(***************************************************************************)
PumpNext ==
    \/ \E c \in OneCpu, cg \in ContainerCgroups, pid \in Pids :
           trace_container_start(c, cg, pid)
    \/ \E c \in OneCpu : CloneInsert(c)
    \/ \E c \in OneCpu : CloneSend(c)
    \/ \E c \in OneCpu, cg \in ContainerCgroups, pid \in Pids :
           trace_container_stop(c, cg, pid)
    \/ \E c \in OneCpu, cg \in ContainerCgroups, pid \in Pids, sk \in Socks,
           junk \in UninitData :
           kprobe_tcp_retransmit(c, cg, pid, sk, junk)
    \/ PumpTick

\* The ticker of processEvents keeps firing while the goroutine lives.
SpecPump ==
    /\ ProbesAttached
    /\ [][PumpNext]_vars
    /\ WF_vars(PumpTick)

\* C19: while the monitor runs, a record submitted to the lifecycle or the
\* network ring buffer is eventually consumed (the ring is drained), and a
\* container-start record is eventually dispatched to its handler, which
\* enters the cgroup into the aggregator's container table.
C19_SubmittedRecordsConsumed ==
    /\ (running /\ events # <<>>) ~> (events = <<>>)
    /\ (running /\ network_events # <<>>) ~> (network_events = <<>>)
    /\ \A cg \in ContainerCgroups :
          (running /\ \E i \in 1..Len(events) :
                         /\ events[i].type = EVENT_CONTAINER_START
                         /\ events[i].cgroup_id = cg)
          ~> (cg \in DOMAIN containerMetrics)

\* No step, a tick of the pump included, takes a record out of a ring.
RingsNeverDrained ==
    [][/\ Len(events') >= Len(events)
       /\ Len(network_events') >= Len(network_events)
       /\ UNCHANGED aggVars]_vars

\* The packet count a poll fetches for a flow key: calculateNetworkMetrics
\* iterates over flow_stats_map and reads the Packets field of the decoded
\* value (the first field, before any padding); when the library refuses
\* the value nothing is fetched and the total stays 0.
ObservedPackets(key, lib) ==
    IF lib = "strict" THEN 0 ELSE FlowStats(flow_stats_map[key]).Packets

\* C20: the packet count user space fetches for a flow key never decreases
\* from one poll to a later one unless the entry was evicted in between: no
\* step of the kernel programs lowers the count of an entry that stays in
\* the map.  (A poll can come between any two steps.  The other half of the
\* claim, the record of a re-baseline, has no state in the code to be
\* stated over: calculateNetworkMetrics drops the fetched totals and
\* aggregateNetworkMetrics is empty.)
C20_ObservedPacketsNeverDecrease ==
    [][\A lib \in Unmarshalers, key \in DOMAIN flow_stats_map :
          key \in DOMAIN flow_stats_map'
          => ObservedPackets(key, lib)' >= ObservedPackets(key, lib)]_vars

\* C21: an update cycle whose read of the kernel maps fails leaves the
\* published container list exactly as it was before the cycle, and a cycle
\* whose read succeeds replaces the list with the records read.
C21_FailedCycleKeepsList ==
    [][\A out \in ReadOutcomes :
          (CollectorUpdate(out) /\ ~crashed')
          => IF out.err
             THEN metrics'.Containers = metrics.Containers
             ELSE metrics'.Containers = out.list]_vars

\* C22: a Start whose load succeeds and whose processor starts reaches the
\* running state when the attach of a network probe (the retransmit kprobe
\* or the tcp_probe tracepoint) fails, with every other program of the
\* collection attached; it fails when the attach of a lifecycle probe fails.
C22_NetworkAttachFailureNotFatal ==
    [][\A load \in LoadOutcomes :
          \A failAt \in FailPoints(load) :
             (/\ MonitorStart(load, failAt)
              /\ ~AlreadyRunning /\ load.loaded /\ ~ProcessorStartFails)
             => /\ failAt \in NetworkPrograms
                   => /\ running'
                      /\ ret' = Returned("Start", "nil")
                      /\ \A p \in load.progs \ {failAt} :
                            \E i \in 1..Len(links') : links'[i] = p
                /\ failAt \in LifecyclePrograms
                   => /\ ~running'
                      /\ ret' = Returned("Start", "attach failed")]_vars

(***************************************************************************)
(* The aggregator over wall-clock time, in seconds: events arrive, time    *)
(* passes and the ticker of aggregateMetrics fires.                        *)
(***************************************************************************)
MaxTime == 161

\* time.Now() moves on
TimePasses ==
    /\ clock + TimeStep <= MaxTime
    /\ clock' = clock + TimeStep
    /\ UNCHANGED <<monVars, aggVars, probeVars, libVars>>

WindowNext ==
    \/ \E cg \in StartCgroups, pid \in EventPids :
           HandleEvent(Event(EVENT_CONTAINER_START, cg, pid))
    \/ \E cg \in StartCgroups, pid \in EventPids :
           HandleEvent(Event(EVENT_NETWORK_PACKET, cg, pid))
    \/ AggregatorTick
    \/ TimePasses

SpecWindow == Started /\ [][WindowNext]_vars

\* C23: after every aggregation tick no aggregated container record and no
\* aggregated network record has a last-update older than twice the window
\* size.
C23_TickDropsOldRecords ==
    [][AggregatorTick
       => /\ \A k \in DOMAIN containerMetrics' :
                clock' - containerMetrics'[k].LastUpdate <= 2 * WindowSize
          /\ \A k \in DOMAIN networkMetrics' :
                clock' - networkMetrics'[k].LastUpdate <= 2 * WindowSize]_vars

(***************************************************************************)
(* The object pools in use: callers get and put objects, the statistics    *)
(* ticker stores the runtime's memory reading, and OptimizeMemory sweeps   *)
(* the pools.  clearObjectPools holds mm.mu, which keeps updateMemoryStats *)
(* out, but not pool.mu: a caller that has looked its pool up before the   *)
(* sweep took mm.mu runs Get or Put in the middle of it.                   *)
(***************************************************************************)
MaxPoolOps == 2
MaxHeld == 2
MaxGC == 2

\* maxMemory: 48 MiB
MaxMemory == 49152
\* NewMemoryOptimizer: thresholds
Warning == (MaxMemory * 70) \div 100
Critical == (MaxMemory * 85) \div 100

\* What runtime.ReadMemStats can report as m.Alloc
MemoryReadings == {0, Warning + 1, Critical, Critical + 1}

RECURSIVE SumOver(_, _)
SumOver(f, S) ==
    IF S = {} THEN 0
    ELSE LET x == CHOOSE y \in S : TRUE IN f[x] + SumOver(f, S \ {x})

\* Calls of Get so far, over all pools
PoolOps == SumOver([name \in PoolNames |-> pools[name].hits + pools[name].misses],
                   PoolNames)

\* ObjectPool.Put that does not look whether the channel is full
PoolPutUnbounded(name, obj) ==
    /\ IF obj = "nil"
       THEN UNCHANGED <<pools, holding>>
       ELSE /\ holding[name] > 0
            /\ holding' = [holding EXCEPT ![name] = @ - 1]
            /\ pools' = [pools EXCEPT ![name].objects = @ + 1]
    /\ UNCHANGED <<notMem, currentMemory, gcCount,
                   sweep>>

\* ObjectPool.Get (through GetFromPool): an object of the channel, or a new
\* one from the factory when the channel is empty
PoolGet(name) ==
    /\ PoolOps < MaxPoolOps
    /\ SumOver(holding, PoolNames) < MaxHeld
    /\ pools' = IF pools[name].objects > 0
                THEN [pools EXCEPT ![name].objects = @ - 1, ![name].hits = @ + 1]
                ELSE [pools EXCEPT ![name].misses = @ + 1, ![name].created = @ + 1]
    /\ holding' = [holding EXCEPT ![name] = @ + 1]
    /\ UNCHANGED <<notMem, currentMemory, gcCount,
                   sweep>>

\* ObjectPool.Put (through PutToPool) of nil or of an object the caller
\* holds: the object goes into the channel, or is dropped when the channel
\* is full
PoolPut(name, obj) ==
    /\ IF obj = "nil"
       THEN UNCHANGED <<pools, holding>>
       ELSE /\ holding[name] > 0
            /\ holding' = [holding EXCEPT ![name] = @ - 1]
            /\ pools' = IF pools[name].objects >= pools[name].maxSize
                        THEN pools
                        ELSE [pools EXCEPT ![name].objects = @ + 1]
    /\ UNCHANGED <<notMem, currentMemory, gcCount,
                   sweep>>

\* updateMemoryStats, under mm.mu: store the reading
updateMemoryStats(alloc) ==
    /\ sweep.pc = "idle"
    /\ currentMemory' = alloc
    /\ UNCHANGED <<notMem, pools, gcCount, sweep,
                   holding>>

\* clearCount of clearObjectPools, a third instead of half
ClearCountThird(poolSize) == poolSize \div 3

\* clearObjectPools: clearCount := poolSize / 2
ClearCount(poolSize) == poolSize \div 2

\* OptimizeMemory: above Critical ForceGC and clearObjectPools (which takes
\* mm.mu), above Warning ForceGC alone, else nothing
OptimizeMemory ==
    /\ sweep.pc = "idle"
    /\ IF currentMemory > Critical
       THEN /\ gcCount < MaxGC
            /\ gcCount' = gcCount + 1
            /\ sweep' = [NoSweep EXCEPT !.pc = "pools", !.todo = PoolNames]
       ELSE IF currentMemory > Warning
       THEN /\ gcCount < MaxGC
            /\ gcCount' = gcCount + 1
            /\ UNCHANGED sweep
       ELSE UNCHANGED <<gcCount, sweep>>
    /\ UNCHANGED <<notMem, pools, currentMemory,
                   holding>>

\* clearObjectPools, the next pool of the range over mm.pools (in any
\* order): poolSize := len(pool.objects); clearCount := poolSize / 2
SweepPool(name) ==
    /\ sweep.pc = "pools"
    /\ name \in sweep.todo
    /\ sweep' = [sweep EXCEPT !.pc = "clear", !.pool = name,
                              !.todo = @ \ {name},
                              !.left = ClearCount(pools[name].objects),
                              !.sizes = [k \in DOMAIN @ \cup {name} |->
                                            IF k = name THEN pools[name].objects
                                            ELSE @[k]]]
    /\ UNCHANGED <<notMem, pools, currentMemory,
                   gcCount, holding>>

\* clearObjectPools, one round of the inner loop: take an object out of
\* the channel if there is one (break leaves the select, not the loop)
SweepReceive ==
    /\ sweep.pc = "clear"
    /\ sweep.left > 0
    /\ sweep' = [sweep EXCEPT !.left = @ - 1]
    /\ pools' = IF pools[sweep.pool].objects > 0
                THEN [pools EXCEPT ![sweep.pool].objects = @ - 1]
                ELSE pools
    /\ UNCHANGED <<notMem, currentMemory, gcCount,
                   holding>>

\* clearObjectPools, the inner loop is over: on to the next pool, or unlock
\* and return
SweepPoolDone ==
    /\ sweep.pc = "clear"
    /\ sweep.left = 0
    /\ sweep' = [sweep EXCEPT !.pc = IF sweep.todo = {} THEN "idle" ELSE "pools",
                              !.pool = ""]
    /\ UNCHANGED <<notMem, pools, currentMemory,
                   gcCount, holding>>

\* The pools as they can be when a caller or the optimizer comes: as
\* created, with three objects each, or filled to the brim.
FillLevels == {"empty", "three", "full"}

Filled(level) ==
    [name \in PoolNames |->
        [NewPool(name) EXCEPT !.objects = CASE level = "empty" -> 0
                                            [] level = "three" -> 3
                                            [] level = "full" -> PoolMaxSize(name)]]

\* The optimizer alone: no caller touches a pool.
SweepInit ==
    /\ MonitorRunning
    /\ NewRuntimeDetector
    /\ NoConfig
    /\ NoKill
    /\ NewTerminalRenderer
    /\ NoLockOps
    /\ NoAggregatorHeld
    /\ NoSamples
    /\ FreshCache
    /\ pools \in {Filled(level) : level \in FillLevels}
    /\ currentMemory = 0
    /\ gcCount = 0
    /\ sweep = NoSweep
    /\ holding = [name \in PoolNames |-> 0]

SweepNext ==
    \/ \E alloc \in MemoryReadings : updateMemoryStats(alloc)
    \/ OptimizeMemory
    \/ \E name \in PoolNames : SweepPool(name)
    \/ SweepReceive
    \/ SweepPoolDone

SpecSweep == SweepInit /\ [][SweepNext]_vars

\* A call of OptimizeMemory starts a sweep exactly when the memory reading
\* is above the critical threshold.
SweepOnlyAboveCritical ==
    OptimizeMemory => ((sweep'.pc = "pools") <=> (currentMemory > Critical))

CallerPools == {"container_metrics", "flow_keys"}

\* Callers and the optimizer together: pools that are empty or hold three
\* objects each under a memory reading that makes OptimizeMemory sweep, and
\* full pools under a reading that does not.  The callers hold no object at
\* first, or one of their own making for each pool they use.  Collections
\* have been forced before: one more call of OptimizeMemory acts.
PoolsInit ==
    /\ MonitorRunning
    /\ NewRuntimeDetector
    /\ NoConfig
    /\ NoKill
    /\ NewTerminalRenderer
    /\ NoLockOps
    /\ NoAggregatorHeld
    /\ NoSamples
    /\ FreshCache
    /\ \E level \in FillLevels :
          /\ pools = Filled(level)
          /\ currentMemory = IF level = "full" THEN Warning + 1 ELSE Critical + 1
    /\ gcCount = MaxGC - 1
    /\ sweep = NoSweep
    /\ \E own \in {0, 1} :
          holding = [name \in PoolNames |-> IF name \in CallerPools THEN own ELSE 0]

PoolsNext ==
    \/ \E name \in CallerPools : PoolGet(name)
    \/ \E name \in CallerPools, obj \in {"nil", "object"} : PoolPut(name, obj)
    \/ OptimizeMemory
    \/ \E name \in PoolNames : SweepPool(name)
    \/ SweepReceive
    \/ SweepPoolDone

SpecPools == PoolsInit /\ [][PoolsNext]_vars

\* The capacities of the pools
Capacity ==
    [name \in PoolNames |->
        CASE name = "container_metrics" -> 100
          [] name \in {"flow_keys", "flow_stats"} -> 1000
          [] name = "event_data" -> 500
          [] name = "byte_buffers" -> 200]

\* C25: whatever Get, Put and sweep steps have run, also into one another,
\* no pool holds more objects than its capacity (100 container-metric, 1000
\* flow-key, 1000 flow-stats, 500 event, 200 byte-buffer); a Put on a full
\* pool drops the object and leaves the pool as it is, and a Get on an empty
\* pool hands out a newly created object and leaves the pool empty.
C25_PoolsBounded ==
    /\ [](\A name \in PoolNames :
             pools[name].objects >= 0 /\ pools[name].objects <= Capacity[name])
    /\ [][\A name \in CallerPools :
             /\ (PoolPut(name, "object") /\ pools[name].objects = Capacity[name])
                => (pools' = pools /\ holding'[name] = holding[name] - 1)
             /\ (PoolGet(name) /\ pools[name].objects = 0)
                => /\ pools'[name].objects = 0
                   /\ pools'[name].created = pools[name].created + 1
                   /\ holding'[name] = holding[name] + 1]_vars

\* A caller has put its object on the full container-metric pool, with no
\* Get before it: the pool is as full as it was and the object is gone.
C25_PutOnFullDropped ==
    /\ pools["container_metrics"].objects = Capacity["container_metrics"]
    /\ pools["container_metrics"].hits = 0
    /\ pools["flow_keys"].hits = 0
    /\ holding["container_metrics"] = 0
    /\ holding["flow_keys"] = 1


(***************************************************************************)
(* RuntimeDetector.DetectRuntimes (runtime.go): the cache of the last scan *)
(***************************************************************************)
\* 30*time.Second
CacheSeconds == 30

\* The runtimes, in the order in which DetectRuntimes looks for them
ScanOrder == <<"docker", "containerd", "cri-o">>
RuntimeNames == {ScanOrder[i] : i \in DOMAIN ScanOrder}

\* The scan: detectDocker, detectContainerd, detectCRIO, each appended when
\* its socket or its process is there (avail: the runtimes that are there)
Scan(avail) == SelectSeq(ScanOrder, LAMBDA name : name \in avail)

\* time.Since(rd.lastScan) < 30*time.Second; the zero time is long ago
RecentlyScanned == rdLastScan # 0 /\ clock - rdLastScan < CacheSeconds

\* DetectRuntimes without the check of the last scan
DetectRuntimesNoCache(avail) ==
    /\ rdDetected' = Scan(avail)
    /\ rdLastScan' = clock
    /\ rdReturned' = [op |-> "DetectRuntimes", arg |-> "", at |-> clock,
                      err |-> FALSE, value |-> Scan(avail)]
    /\ UNCHANGED <<notDet, procFiles>>

DetectRuntimes(avail) ==
    /\ IF RecentlyScanned
       THEN /\ rdReturned' = [op |-> "DetectRuntimes", arg |-> "",
                              at |-> clock, err |-> FALSE,
                              value |-> rdDetected]
            /\ UNCHANGED <<rdDetected, rdLastScan>>
       ELSE /\ rdDetected' = Scan(avail)
            /\ rdLastScan' = clock
            /\ rdReturned' = [op |-> "DetectRuntimes", arg |-> "",
                              at |-> clock, err |-> FALSE,
                              value |-> Scan(avail)]
    /\ UNCHANGED <<notDet, procFiles>>

DetectNext ==
    \/ \E avail \in SUBSET RuntimeNames : DetectRuntimes(avail)
    \/ TimePasses

SpecDetect == ProbesAttached /\ [][DetectNext]_vars

\* C26: a call of DetectRuntimes scans only when no scan has been made yet
\* or at least 30 seconds have passed since the last scan; a call made less
\* than 30 seconds after a scan returns the result of that scan and leaves
\* the record of the scan as it is.
C26_ScanCachedFor30Seconds ==
    [][(\E avail \in SUBSET RuntimeNames : DetectRuntimes(avail))
       => /\ (rdLastScan' # rdLastScan \/ rdDetected' # rdDetected)
                => (rdLastScan = 0 \/ clock - rdLastScan >= 30)
          /\ (rdLastScan # 0 /\ clock - rdLastScan < 30)
                => /\ rdReturned'.value = rdDetected
                   /\ rdDetected' = rdDetected
                   /\ rdLastScan' = rdLastScan]_vars

\* A call made 10 or 20 seconds after a scan has returned the result of
\* that scan.
C26_CachedCall ==
    /\ rdReturned.op = "DetectRuntimes"
    /\ rdLastScan # 0
    /\ rdReturned.at > rdLastScan
    /\ rdReturned.at - rdLastScan < 30
    /\ rdReturned.value = rdDetected
    /\ rdDetected # <<>>

\* A call made exactly 30 seconds after a scan has scanned again.
RescanAfter30Seconds ==
    [][(\E avail \in SUBSET RuntimeNames : DetectRuntimes(avail))
       => (rdLastScan # 0 /\ clock - rdLastScan = 30
             => rdLastScan' = clock)]_vars


(***************************************************************************)
(* RuntimeDetector.GetContainers (runtime.go): containers from the cgroup  *)
(* files of the processes.  A line is a sequence of pieces of text; a      *)
(* piece is a signature or text that holds no signature, and the text of   *)
(* the line is the pieces one after the other.                             *)
(***************************************************************************)
\* strings.Contains(line, sub), for sub a signature
Contains(line, sub) == \E i \in DOMAIN line : line[i] = sub

\* strings.Split(line, sep), for sep a signature: the texts between the
\* occurrences of sep
RECURSIVE Split(_, _)
Split(line, sep) ==
    IF ~Contains(line, sep)
    THEN <<line>>
    ELSE LET i == CHOOSE j \in DOMAIN line :
                      /\ line[j] = sep
                      /\ \A k \in 1..(j - 1) : line[k] # sep
         IN  <<SubSeq(line, 1, i - 1)>>
                 \o Split(SubSeq(line, i + 1, Len(line)), sep)

\* strings.TrimSpace: white space at both ends goes
RECURSIVE TrimSpace(_)
TrimSpace(text) ==
    IF text = <<>> THEN text
    ELSE IF Head(text) = " " THEN TrimSpace(Tail(text))
    ELSE IF text[Len(text)] = " "
         THEN TrimSpace(SubSeq(text, 1, Len(text) - 1))
    ELSE text

isContainerCgroup(line, runtime) ==
    CASE runtime = "docker" ->
             Contains(line, "/docker/") \/ Contains(line, "/docker-")
      [] runtime = "containerd" ->
             Contains(line, "/containerd/") \/ Contains(line, "/k8s.io/")
      [] runtime = "cri-o" ->
             Contains(line, "/crio-") \/ Contains(line, "/crio/")
      [] OTHER -> FALSE

\* The separator extractContainerID splits the line on ("": none)
Separator(runtime) ==
    CASE runtime = "docker" -> "/docker/"
      [] runtime = "containerd" -> "/containerd/"
      [] runtime = "cri-o" -> "/crio-"
      [] OTHER -> ""

\* <<>> is the empty string
extractContainerID(line, runtime) ==
    IF Separator(runtime) = "" THEN <<>>
    ELSE LET parts == Split(line, Separator(runtime))
         IN  IF Len(parts) > 1 THEN TrimSpace(parts[2]) ELSE <<>>

\* The records of one cgroup file: none (nil) or one, of the first line that
\* is a container's and has a container id
RECURSIVE parseLines(_, _, _)
parseLines(lines, runtime, pid) ==
    IF lines = <<>> THEN <<>>
    ELSE LET line == Head(lines)
             containerID == extractContainerID(line, runtime)
         IN  IF isContainerCgroup(line, runtime) /\ containerID # <<>>
             THEN <<[ID |-> containerID, Runtime |-> runtime, PID |-> pid,
                     CgroupPath |-> line, Status |-> "running"]>>
             ELSE parseLines(Tail(lines), runtime, pid)

parseCgroupFile(file, runtime, pid) ==
    IF ~file.exists THEN <<>> ELSE parseLines(file.lines, runtime, pid)

\* The entries of /proc, in the order of os.ReadDir
RECURSIVE parseContainersFromPids(_, _, _)
parseContainersFromPids(files, pids, runtime) ==
    IF pids = {} THEN <<>>
    ELSE LET pid == CHOOSE p \in pids : \A q \in pids : p <= q
         IN  parseCgroupFile(files[pid], runtime, pid)
                 \o parseContainersFromPids(files, pids \ {pid}, runtime)

parseContainersFromCgroup(files, runtime) ==
    parseContainersFromPids(files, DOMAIN files, runtime)

\* What the caller may ask for: the three runtimes and one that is not
\* supported
AskedRuntimes == RuntimeNames \cup {"podman"}

\* GetContainers: getDockerContainers, getContainerdContainers and
\* getCRIOContainers, which asks parseContainersFromCgroup for "crio"
GetContainers(runtime) ==
    /\ rdReturned' =
           CASE runtime = "docker" ->
                    [op |-> "GetContainers", arg |-> runtime, at |-> clock,
                     err |-> FALSE,
                     value |-> parseContainersFromCgroup(procFiles, "docker")]
             [] runtime = "containerd" ->
                    [op |-> "GetContainers", arg |-> runtime, at |-> clock,
                     err |-> FALSE,
                     value |-> parseContainersFromCgroup(procFiles,
                                                         "containerd")]
             [] runtime = "cri-o" ->
                    [op |-> "GetContainers", arg |-> runtime, at |-> clock,
                     err |-> FALSE,
                     value |-> parseContainersFromCgroup(procFiles, "crio")]
             [] OTHER ->
                    [op |-> "GetContainers", arg |-> runtime, at |-> clock,
                     err |-> TRUE, value |-> <<>>]
    /\ UNCHANGED <<notDet, rdLastScan, rdDetected, procFiles>>

\* The signatures of the three runtimes, and the text of a container id
Signatures == {"/docker/", "/docker-", "/containerd/", "/k8s.io/",
               "/crio-", "/crio/"}
LinePieces == Signatures \cup {"abc"}

\* The longest line, in pieces after the hierarchy prefix "0::"
MaxPieces == 2

RECURSIVE PieceSeqs(_)
PieceSeqs(n) ==
    IF n = 0 THEN {<<>>}
    ELSE PieceSeqs(n - 1)
             \cup {Append(t, piece) : t \in PieceSeqs(n - 1),
                                      piece \in LinePieces}

CgroupLines == {<<"0::">> \o t : t \in PieceSeqs(MaxPieces)}

\* A process that is gone, one line, or a line of no container and one line
CgroupFiles ==
    {[exists |-> FALSE, lines |-> <<>>]}
        \cup {[exists |-> TRUE, lines |-> <<line>>] : line \in CgroupLines}
        \cup {[exists |-> TRUE, lines |-> << <<"0::">>, line >>] :
                  line \in CgroupLines}

\* The files of the second process: gone, or one line of at most one piece
FewCgroupFiles ==
    {file \in CgroupFiles :
        \A i \in DOMAIN file.lines :
            i = 1 /\ Len(file.lines[i]) <= 2}

CgroupInit ==
    /\ MonitorRunning
    /\ NewMemoryOptimizer
    /\ NoConfig
    /\ NoKill
    /\ NewTerminalRenderer
    /\ NoLockOps
    /\ NoAggregatorHeld
    /\ NoSamples
    /\ FreshCache
    /\ rdLastScan = 0
    /\ rdDetected = <<>>
    /\ rdReturned = NoCall
    /\ procFiles \in {files \in [Pids -> CgroupFiles] :
                         \A pid \in Pids :
                             pid = 10 \/ files[pid] \in FewCgroupFiles}

CgroupNext == \E runtime \in AskedRuntimes : GetContainers(runtime)

SpecCgroup == CgroupInit /\ [][CgroupNext]_vars

\* The signatures the specification gives for a runtime
SignaturesOf(runtime) ==
    CASE runtime = "docker" -> {"/docker/", "/docker-"}
      [] runtime = "containerd" -> {"/containerd/", "/k8s.io/"}
      [] runtime = "cri-o" -> {"/crio-", "/crio/"}

\* C27: for each runtime r of docker, containerd and cri-o and each pid
\* whose cgroup file holds a line with one of r's signatures,
\* GetContainers(r) returns a record for that pid with status running and
\* with the text following the matched signature as its id.
C27_SignatureLinesReturned ==
    \A r \in RuntimeNames :
        (rdReturned.op = "GetContainers" /\ rdReturned.arg = r)
            => \A pid \in DOMAIN procFiles :
                   LET file == procFiles[pid]
                       Matches ==
                           {<<i, j>> \in (DOMAIN file.lines) \X (1..(MaxPieces + 1)) :
                               /\ j \in DOMAIN file.lines[i]
                               /\ file.lines[i][j] \in SignaturesOf(r)}
                   IN  (file.exists /\ Matches # {})
                           => \E n \in DOMAIN rdReturned.value, m \in Matches :
                                  LET rec == rdReturned.value[n]
                                      line == file.lines[m[1]]
                                  IN  /\ rec.PID = pid
                                      /\ rec.Status = "running"
                                      /\ rec.ID = SubSeq(line, m[2] + 1,
                                                         Len(line))

\* What the code does return: records only for lines that hold /docker/
\* (docker) or /containerd/ (containerd) with text after it, and none at all
\* for cri-o.
ReturnedOnlyForFirstSignature ==
    rdReturned.op = "GetContainers"
        => /\ rdReturned.arg = "cri-o" => rdReturned.value = <<>>
           /\ \A n \in DOMAIN rdReturned.value :
                  LET rec == rdReturned.value[n]
                  IN  /\ rec.Status = "running"
                      /\ Contains(rec.CgroupPath, Separator(rdReturned.arg))
                      /\ rec.ID # <<>>


(***************************************************************************)
(* config.Load (config.go).  An option of the file is <<>> when the file   *)
(* leaves it out and <<v>> when the file gives v.  Durations are in        *)
(* milliseconds, thresholds in whole percent and whole milliseconds.       *)
(***************************************************************************)
Omitted == <<>>
Given(v) == <<v>>

\* time.Second
Second == 1000

\* yaml.Unmarshal into a zero Config: an option the file leaves out keeps
\* the zero value of its type
Unmarshal(option, zero) == IF option = Omitted THEN zero ELSE option[1]

UnmarshalTarget(t) ==
    [Name |-> Unmarshal(t.name, ""),
     Runtime |-> Unmarshal(t.runtime, ""),
     Metrics |-> Unmarshal(t.metrics, <<>>),
     SamplingRate |-> Unmarshal(t.sampling_rate, 0)]

UnmarshalConfig(doc) ==
    [Targets |-> [i \in DOMAIN doc.targets |-> UnmarshalTarget(doc.targets[i])],
     AlertThresholds |->
         [CPU |-> Unmarshal(doc.cpu, 0),
          Memory |-> Unmarshal(doc.memory, 0),
          NetworkLatency |-> Unmarshal(doc.network_latency, 0)],
     RefreshRate |-> Unmarshal(doc.refresh_rate, 0),
     MaxContainers |-> Unmarshal(doc.max_containers, 0),
     MemoryLimit |-> Unmarshal(doc.memory_limit, "")]

validRuntimes == {"docker", "containerd", "cri-o"}

\* Config.Validate: TRUE when it returns nil
Validate(c) ==
    /\ Len(c.Targets) # 0
    /\ \A i \in DOMAIN c.Targets :
           /\ c.Targets[i].Name # ""
           /\ c.Targets[i].Runtime # ""
           /\ c.Targets[i].Runtime \in validRuntimes
           /\ ~(c.Targets[i].SamplingRate < Second)
    /\ ~(c.AlertThresholds.CPU <= 0 \/ c.AlertThresholds.CPU > 100)
    /\ ~(c.AlertThresholds.Memory <= 0 \/ c.AlertThresholds.Memory > 100)
    /\ ~(c.AlertThresholds.NetworkLatency <= 0)

\* Config.SetDefaults
SetDefaults(c) ==
    [Targets |->
         [i \in DOMAIN c.Targets |->
             [c.Targets[i] EXCEPT
                 !.SamplingRate = IF @ = 0 THEN 2 * Second ELSE @,
                 !.Metrics = IF Len(@) = 0
                             THEN <<"cpu", "memory", "network_latency",
                                    "tcp_retransmits">>
                             ELSE @]],
     AlertThresholds |->
         [CPU |-> IF c.AlertThresholds.CPU = 0
                  THEN 70 ELSE c.AlertThresholds.CPU,
          Memory |-> IF c.AlertThresholds.Memory = 0
                     THEN 80 ELSE c.AlertThresholds.Memory,
          NetworkLatency |-> IF c.AlertThresholds.NetworkLatency = 0
                             THEN 10 ELSE c.AlertThresholds.NetworkLatency],
     RefreshRate |-> IF c.RefreshRate = 0 THEN 100 ELSE c.RefreshRate,
     MaxContainers |-> IF c.MaxContainers = 0 THEN 1000 ELSE c.MaxContainers,
     MemoryLimit |-> IF c.MemoryLimit = "" THEN "48MB" ELSE c.MemoryLimit]

\* Load: read, parse, validate, set the defaults
Load ==
    /\ cfgLoaded' =
           IF cfgFile.kind = "missing" THEN [op |-> "Load", err |-> "read"]
           ELSE IF cfgFile.kind = "garbage"
           THEN [op |-> "Load", err |-> "parse"]
           ELSE LET config == UnmarshalConfig(cfgFile.doc)
                IN  IF ~Validate(config)
                    THEN [op |-> "Load", err |-> "validate"]
                    ELSE [op |-> "Load", err |-> "nil",
                          config |-> SetDefaults(config)]
    /\ UNCHANGED <<notCfg, cfgFile>>

\* The most targets of a file
MaxTargets == 2

\* Targets of a file: with or without a name, a runtime that is supported,
\* one that is not or none, a sampling rate left out, too short, or long
\* enough
FileTargets ==
    [name : {Omitted, Given("web")},
     runtime : {Omitted, Given("docker"), Given("podman")},
     metrics : {Omitted, Given(<<"cpu">>)},
     sampling_rate : {Omitted, Given(500), Given(Second), Given(5 * Second)}]

\* The targets after the first: valid, with or without a sampling rate
MoreTargets ==
    {t \in FileTargets :
        /\ t.name # Omitted
        /\ t.runtime = Given("docker")
        /\ t.metrics = Omitted
        /\ t.sampling_rate \in {Omitted, Given(Second)}}

RECURSIVE TargetLists(_)
TargetLists(n) ==
    IF n = 0 THEN {<<>>}
    ELSE {<<>>} \cup {<<t>> : t \in FileTargets}
             \cup {Append(ts, t) : ts \in TargetLists(n - 1) \ {<<>>},
                                   t \in MoreTargets}

ConfigDocs ==
    [targets : TargetLists(MaxTargets),
     cpu : {Omitted, Given(50), Given(101)},
     memory : {Omitted, Given(60)},
     network_latency : {Omitted, Given(5)},
     refresh_rate : {Omitted, Given(50)},
     max_containers : {Omitted},
     memory_limit : {Omitted}]

ConfigFiles ==
    {[kind |-> "missing"], [kind |-> "garbage"]}
        \cup {[kind |-> "yaml", doc |-> doc] : doc \in ConfigDocs}

ConfigInit ==
    /\ MonitorRunning
    /\ NewMemoryOptimizer
    /\ NewRuntimeDetector
    /\ NoKill
    /\ NewTerminalRenderer
    /\ NoLockOps
    /\ NoAggregatorHeld
    /\ NoSamples
    /\ FreshCache
    /\ cfgFile \in ConfigFiles
    /\ cfgLoaded = [op |-> "none"]

ConfigNext == Load

SpecConfig == ConfigInit /\ [][ConfigNext]_vars

\* A file that is valid but for what it leaves out: at least one target,
\* every target with a name and a supported runtime, every sampling rate
\* and threshold that is given within its range
OtherwiseValid(doc) ==
    /\ doc.targets # <<>>
    /\ \A i \in DOMAIN doc.targets :
           /\ doc.targets[i].name # Omitted
           /\ doc.targets[i].runtime \in {Given(r) : r \in validRuntimes}
           /\ doc.targets[i].sampling_rate \in
                  {Omitted} \cup {Given(d) : d \in Second..(5 * Second)}
    /\ doc.cpu \in {Omitted} \cup {Given(p) : p \in 1..100}
    /\ doc.memory \in {Omitted} \cup {Given(p) : p \in 1..100}
    /\ doc.network_latency \in {Omitted} \cup {Given(l) : l \in 1..100}

\* A file that leaves out the sampling rate of a target or an alert
\* threshold
OmitsDefaulted(doc) ==
    \/ \E i \in DOMAIN doc.targets : doc.targets[i].sampling_rate = Omitted
    \/ Omitted \in {doc.cpu, doc.memory, doc.network_latency}

\* C28: a configuration file that is otherwise valid but omits a target's
\* sampling_rate or omits alert thresholds loads successfully, and the
\* returned configuration has sampling_rate = 2s for such a target and the
\* thresholds cpu = 70, memory = 80, network_latency = 10 where omitted.
C28_LoadAppliesDefaults ==
    (/\ cfgLoaded.op = "Load"
     /\ cfgFile.kind = "yaml"
     /\ OtherwiseValid(cfgFile.doc)
     /\ OmitsDefaulted(cfgFile.doc))
        => /\ cfgLoaded.err = "nil"
           /\ LET doc == cfgFile.doc
                  config == cfgLoaded.config
              IN  /\ \A i \in DOMAIN doc.targets :
                         doc.targets[i].sampling_rate = Omitted
                             => config.Targets[i].SamplingRate = 2000
                  /\ doc.cpu = Omitted => config.AlertThresholds.CPU = 70
                  /\ doc.memory = Omitted => config.AlertThresholds.Memory = 80
                  /\ doc.network_latency = Omitted
                         => config.AlertThresholds.NetworkLatency = 10

\* What the code does: every file that leaves out a sampling rate or a
\* threshold is refused by the validation, and a file that loads has every
\* one of them given.
OmittedOptionsRefused ==
    (cfgLoaded.op = "Load" /\ cfgFile.kind = "yaml")
        => /\ OmitsDefaulted(cfgFile.doc) => cfgLoaded.err = "validate"
           /\ cfgLoaded.err = "nil"
                  => /\ OtherwiseValid(cfgFile.doc)
                     /\ ~OmitsDefaulted(cfgFile.doc)

\* Files do load: one with every option given and within its range.
SomeFileLoads == cfgLoaded.op = "Load" /\ cfgLoaded.err = "nil"


\* The defaults of the options the validation does not look at are set.
OtherDefaultsApplied ==
    (cfgLoaded.op = "Load" /\ cfgLoaded.err = "nil")
        => LET doc == cfgFile.doc
               config == cfgLoaded.config
           IN  /\ config.MaxContainers = 1000
               /\ config.MemoryLimit = "48MB"
               /\ doc.refresh_rate = Omitted => config.RefreshRate = 100
               /\ \A i \in DOMAIN doc.targets :
                      doc.targets[i].metrics = Omitted
                          => Len(config.Targets[i].Metrics) = 4


(***************************************************************************)
(* The status strings: the lifecycle probes write the status of a          *)
(* container into the container table, an update cycle reads the table and *)
(* publishes the list, and the handlers of the aggregator set the status   *)
(* of the aggregated records.                                              *)
(***************************************************************************)
\* One update cycle of the collector, with m.mu held: readContainerMetrics
\* over the container table as it is, then the publication
UpdateCycle(lib) ==
    /\ clock < MaxClock
    /\ metrics' = UpdateMetrics(readContainerMetrics(lib))
    /\ clock' = clock + 1
    /\ UNCHANGED <<running, startTime, links, coll, processorRunning,
                   ctxDone, tasks, crashed, ret, rpc, held, aggVars,
                   probeVars, libVars>>

StatusNext ==
    \/ \E c \in OneCpu, cg \in ContainerCgroups, pid \in Pids :
           trace_container_start(c, cg, pid)
    \/ \E c \in OneCpu : CloneInsert(c)
    \/ \E c \in OneCpu : CloneSend(c)
    \/ \E c \in OneCpu, cg \in ContainerCgroups, pid \in Pids :
           trace_process_exec(c, cg, pid)
    \/ \E c \in OneCpu, cg \in ContainerCgroups, pid \in Pids :
           trace_container_stop(c, cg, pid)
    \/ \E lib \in Unmarshalers : UpdateCycle(lib)
    \/ \E cg \in StartCgroups, pid \in EventPids :
           HandleEvent(Event(EVENT_CONTAINER_START, cg, pid))
    \/ \E cg \in EventCgroups, pid \in EventPids :
           HandleEvent(Event(EVENT_CONTAINER_STOP, cg, pid))

SpecStatus == ProbesAttached /\ [][StatusNext]_vars

StatusesInFact ==
    /\ \A i \in DOMAIN metrics.Containers :
           metrics.Containers[i].Status \in {"unknown", "running"}
    /\ \A i \in DOMAIN metrics.Containers :
           metrics.Containers[i].Status = "running"
               => metrics.Containers = MockContainers
    /\ \A cg \in DOMAIN containerMetrics :
           containerMetrics[cg].Status \in {"running", "stopped"}


(***************************************************************************)
(* ProcessManager (process_manager.go).  A call runs commands of the       *)
(* container runtimes and sends signals; what the host answers is the      *)
(* input env of the call: the runtime that knows the container, whether    *)
(* the first command or signal of the kill succeeds, whether the container *)
(* or process is gone after the wait, whether the last command or signal   *)
(* succeeds.  The waits of a call (time.Sleep) are not counted on the      *)
(* clock.                                                                  *)
(***************************************************************************)
Cmd(words, id) == [cmd |-> words, id |-> id]
Sig(signal, pid) == [signal |-> signal, pid |-> pid]

KillEnvs ==
    [runtime : {"docker", "containerd", "cri-o", "unknown"},
     first : BOOLEAN, gone : BOOLEAN, last : BOOLEAN]

\* What a helper has run or sent, and the error it returns
Did(cmds, ok, err) == [cmds |-> cmds, err |-> IF ok THEN "nil" ELSE err]

\* detectContainerRuntime: docker inspect, then ctr container info, then
\* crictl inspect, up to the first that succeeds
detectContainerRuntime(id, env) ==
    <<Cmd("docker inspect", id)>>
        \o (IF env.runtime = "docker" THEN <<>>
            ELSE <<Cmd("ctr container info", id)>>
                     \o (IF env.runtime = "containerd" THEN <<>>
                         ELSE <<Cmd("crictl inspect", id)>>))

killDockerContainer(id, env) ==
    IF env.first
    THEN Did(<<Cmd("docker stop --time 10", id)>>, TRUE, "")
    ELSE Did(<<Cmd("docker stop --time 10", id), Cmd("docker kill", id)>>,
             env.last, "command")

killContainerdContainer(id, env) ==
    IF env.first /\ env.gone
    THEN Did(<<Cmd("ctr task kill --signal SIGTERM", id),
               Cmd("ctr task ls", "")>>, TRUE, "")
    ELSE Did(<<Cmd("ctr task kill --signal SIGTERM", id)>>
                 \o (IF env.first THEN <<Cmd("ctr task ls", "")>> ELSE <<>>)
                 \o <<Cmd("ctr task kill --signal SIGKILL", id)>>,
             env.last, "command")

killCRIOContainer(id, env) ==
    IF env.first
    THEN Did(<<Cmd("crictl stop", id)>>, TRUE, "")
    ELSE Did(<<Cmd("crictl stop", id), Cmd("crictl rm --force", id)>>,
             env.last, "command")

\* A signal asked of os.Process.Signal that the os package turned down
\* without a system call
Refused(signal, pid) == [asked |-> signal, pid |-> pid]

\* sendSignal: os.FindProcess, which finds every pid, and Process.Signal,
\* which turns the pid 0 down ("os: process not initialized")
sendSignal(pid, signal, ok) ==
    IF pid = 0 THEN Did(<<Refused(signal, pid)>>, FALSE, "signal")
    ELSE Did(<<Sig(signal, pid)>>, ok, "signal")

\* isProcessRunning: the signal 0
isProcessRunning(pid) == sendSignal(pid, "0", TRUE).cmds

killProcessByPID(pid, env) ==
    IF pid = 0 THEN Did(<<>>, FALSE, "pid")
    ELSE LET term == sendSignal(pid, "SIGTERM", env.first)
         IN  IF term.err # "nil" THEN term
             ELSE IF env.gone
             THEN Did(term.cmds \o isProcessRunning(pid), TRUE, "")
             ELSE LET kill == sendSignal(pid, "SIGKILL", env.last)
                  IN  Did(term.cmds \o isProcessRunning(pid) \o kill.cmds,
                          kill.err = "nil", "signal")

KillOptions == [Force : BOOLEAN, GracePeriod : {0, 5}]

killDockerContainerWithOptions(id, options, env) ==
    IF options.Force
    THEN Did(<<Cmd("docker kill", id)>>, env.last, "command")
    ELSE Did(<<Cmd(IF options.GracePeriod <= 0
                   THEN "docker stop --time 10"
                   ELSE "docker stop --time 5", id)>>,
             env.last, "command")

killContainerdContainerWithOptions(id, options, env) ==
    Did(<<Cmd(IF options.Force
              THEN "ctr task kill --signal SIGKILL"
              ELSE "ctr task kill --signal SIGTERM", id)>>,
        env.last, "command")

killCRIOContainerWithOptions(id, options, env) ==
    Did(<<Cmd(IF options.Force THEN "crictl rm --force" ELSE "crictl stop",
              id)>>,
        env.last, "command")

killProcessByPIDWithOptions(pid, options, env) ==
    IF options.Force THEN sendSignal(pid, "SIGKILL", env.last)
    ELSE LET term == sendSignal(pid, "SIGTERM", env.first)
         IN  IF term.err # "nil" THEN term
             ELSE IF env.gone
             THEN Did(term.cmds \o isProcessRunning(pid), TRUE, "")
             ELSE LET kill == sendSignal(pid, "SIGKILL", env.last)
                  IN  Did(term.cmds \o isProcessRunning(pid) \o kill.cmds,
                          kill.err = "nil", "signal")

\* A call with a valid index is made while fewer commands and signals than
\* this are on record
MaxIssued == 2
\* The largest container index asked for
MaxIndex == 2

\* A valid index is 0 .. len - 1 of the list of the snapshot taken by the
\* call
ValidIndex(containerIndex) ==
    ~(containerIndex >= Len(metrics.Containers) \/ containerIndex < 0)

\* KillContainerProcess without the check of the index: a container out of
\* the range is taken for the first of the list, or for an empty record
KillContainerProcessUnchecked(containerIndex, env) ==
    /\ Len(issued) < MaxIssued
    /\ LET container ==
               IF ValidIndex(containerIndex)
               THEN metrics.Containers[containerIndex + 1]
               ELSE IF metrics.Containers # <<>> THEN metrics.Containers[1]
               ELSE ContainerMetric("", 0, "unknown")
           detect == detectContainerRuntime(container.ID, env)
           kill == CASE env.runtime = "docker" ->
                            killDockerContainer(container.ID, env)
                     [] env.runtime = "containerd" ->
                            killContainerdContainer(container.ID, env)
                     [] env.runtime = "cri-o" ->
                            killCRIOContainer(container.ID, env)
                     [] OTHER -> killProcessByPID(container.PID, env)
       IN  /\ issued' = issued \o detect \o kill.cmds
           /\ killRet' = [op |-> "KillContainerProcess", err |-> kill.err]
    /\ UNCHANGED notKill

KillContainerProcess(containerIndex, env) ==
    /\ ValidIndex(containerIndex) => Len(issued) < MaxIssued
    /\ IF ~ValidIndex(containerIndex)
       THEN /\ killRet' = [op |-> "KillContainerProcess", err |-> "index"]
            /\ UNCHANGED issued
       ELSE LET container == metrics.Containers[containerIndex + 1]
                detect == detectContainerRuntime(container.ID, env)
                kill == CASE env.runtime = "docker" ->
                                 killDockerContainer(container.ID, env)
                          [] env.runtime = "containerd" ->
                                 killContainerdContainer(container.ID, env)
                          [] env.runtime = "cri-o" ->
                                 killCRIOContainer(container.ID, env)
                          [] OTHER -> killProcessByPID(container.PID, env)
            IN  /\ issued' = issued \o detect \o kill.cmds
                /\ killRet' = [op |-> "KillContainerProcess",
                               err |-> kill.err]
    /\ UNCHANGED notKill

KillContainerWithOptions(containerIndex, options, env) ==
    /\ ValidIndex(containerIndex) => Len(issued) < MaxIssued
    /\ IF ~ValidIndex(containerIndex)
       THEN /\ killRet' = [op |-> "KillContainerWithOptions",
                           err |-> "index"]
            /\ UNCHANGED issued
       ELSE LET container == metrics.Containers[containerIndex + 1]
                detect == detectContainerRuntime(container.ID, env)
                kill ==
                    CASE env.runtime = "docker" ->
                             killDockerContainerWithOptions(container.ID,
                                                            options, env)
                      [] env.runtime = "containerd" ->
                             killContainerdContainerWithOptions(container.ID,
                                                                options, env)
                      [] env.runtime = "cri-o" ->
                             killCRIOContainerWithOptions(container.ID,
                                                          options, env)
                      [] OTHER ->
                             killProcessByPIDWithOptions(container.PID,
                                                         options, env)
            IN  /\ issued' = issued \o detect \o kill.cmds
                /\ killRet' = [op |-> "KillContainerWithOptions",
                               err |-> kill.err]
    /\ UNCHANGED notKill

\* An update cycle of the collector, by what readContainerMetrics returns
Publish(out) ==
    /\ clock < MaxClock
    /\ metrics' = UpdateMetrics(out)
    /\ clock' = clock + 1
    /\ UNCHANGED <<running, startTime, links, coll, processorRunning,
                   ctxDone, tasks, crashed, ret, rpc, held, aggVars,
                   probeVars, libVars>>

\* The answers of the host that make a difference to a call: a call with
\* an index out of the range asks the host nothing
EnvsFor(containerIndex) ==
    IF ValidIndex(containerIndex) THEN KillEnvs
    ELSE {[runtime |-> "unknown", first |-> TRUE, gone |-> TRUE,
           last |-> TRUE]}

KillNext ==
    \/ \E out \in ReadOutcomes : Publish(out)
    \/ \E containerIndex \in (-1)..MaxIndex :
           \E env \in EnvsFor(containerIndex) :
               KillContainerProcess(containerIndex, env) /\ UNCHANGED uiVars
    \/ \E containerIndex \in (-1)..MaxIndex, options \in KillOptions :
           \E env \in EnvsFor(containerIndex) :
               /\ KillContainerWithOptions(containerIndex, options, env)
               /\ UNCHANGED uiVars

SpecKill == ProbesAttached /\ [][KillNext]_vars


\* C30: KillContainerProcess and KillContainerWithOptions called with a
\* container index that is negative or not smaller than the number of
\* containers of the current snapshot return an error and run no runtime
\* command and send no signal.
C30_InvalidIndexRefused ==
    [][\A containerIndex \in (-1)..MaxIndex :
          (/\ containerIndex < 0 \/ containerIndex >= Len(metrics.Containers)
           /\ \E env \in KillEnvs :
                 \/ KillContainerProcess(containerIndex, env)
                 \/ \E options \in KillOptions :
                        KillContainerWithOptions(containerIndex, options, env))
              => /\ killRet'.err # "nil"
                 /\ issued' = issued]_vars

\* A call with an index out of the range of a list that is not empty has
\* returned the error, after a call that did run commands.
C30_RefusedCall ==
    /\ killRet.err = "index"
    /\ metrics.Containers # <<>>
    /\ issued # <<>>


(***************************************************************************)
(* TerminalRenderer (terminal.go): the container view, the selection, the  *)
(* sort order and the kill dialog.  The renderer stays in the container    *)
(* view, the help screen is closed and the screen is tall enough for every *)
(* row.  Percentages are in tenths.                                        *)
(***************************************************************************)
\* CPUPercent, MemoryPercent and the place of Name in the alphabet: the
\* values of generateMockContainers; a record read from the container table
\* has cpu_usage and memory_usage 0, which no probe writes
CPUPercent(c) ==
    CASE c.ID = "container_001" -> 321
      [] c.ID = "container_002" -> 789
      [] OTHER -> 0

MemoryPercent(c) ==
    CASE c.ID = "container_001" -> 456
      [] c.ID = "container_002" -> 623
      [] OTHER -> 0

\* "db-primary" < "web-server"; the name of any other record is taken to
\* come first
NameRank(c) ==
    CASE c.ID = "container_001" -> 2
      [] c.ID = "container_002" -> 1
      [] OTHER -> 0

\* The less function of sortContainers
SortLess(a, b) ==
    LET less == CASE sortBy = "cpu" -> CPUPercent(a) < CPUPercent(b)
                  [] sortBy = "memory" -> MemoryPercent(a) < MemoryPercent(b)
                  [] sortBy = "name" -> NameRank(a) < NameRank(b)
                  [] OTHER -> CPUPercent(a) < CPUPercent(b)
    IN  IF sortDesc THEN ~less ELSE less

\* sortContainers: sort.Slice of a copy.  sort.Slice is not stable, and
\* with sortDesc the less function calls two equal rows each less than the
\* other: rows that less does not order both ways may come in any order.
sortContainers(containers) ==
    LET n == Len(containers)
        Perms == {p \in [1..n -> 1..n] : \A i, j \in 1..n : i # j => p[i] # p[j]}
    IN  {[i \in 1..n |-> containers[p[i]]] :
            p \in {q \in Perms :
                      \A i, j \in 1..n :
                          i < j => SortLess(containers[q[i]], containers[q[j]])
                                     \/ ~SortLess(containers[q[j]],
                                                  containers[q[i]])}}

\* The refresh tick: metricsFunc() and render.  With the kill dialog open
\* the dialog is drawn and the container view is not.
RenderTick ==
    /\ IF showKillDialog
       THEN UNCHANGED <<selectedIndex, highlighted>>
       ELSE \E containers \in sortContainers(metrics.Containers) :
                /\ highlighted' =
                       IF selectedIndex \in 0..(Len(containers) - 1)
                       THEN containers[selectedIndex + 1].ID
                       ELSE ""
                /\ selectedIndex' =
                       LET clamped == IF selectedIndex >= Len(containers)
                                      THEN Len(containers) - 1
                                      ELSE selectedIndex
                       IN  IF clamped < 0 THEN 0 ELSE clamped
    /\ UNCHANGED <<sortBy, sortDesc, showKillDialog, killConfirm, notUi>>

\* The largest selected index a key press leaves
MaxSelected == 3

handleUpKey ==
    /\ IF showKillDialog
       THEN killConfirm' = ~killConfirm /\ UNCHANGED selectedIndex
       ELSE /\ selectedIndex' = IF selectedIndex > 0
                                THEN selectedIndex - 1 ELSE selectedIndex
            /\ UNCHANGED killConfirm
    /\ UNCHANGED <<sortBy, sortDesc, showKillDialog, highlighted, notUi>>

handleDownKey ==
    /\ IF showKillDialog
       THEN killConfirm' = ~killConfirm /\ UNCHANGED selectedIndex
       ELSE /\ selectedIndex < MaxSelected
            /\ selectedIndex' = selectedIndex + 1
            /\ UNCHANGED killConfirm
    /\ UNCHANGED <<sortBy, sortDesc, showKillDialog, highlighted, notUi>>

\* The keys k and Del
showKillProcessDialog ==
    /\ showKillDialog' = TRUE
    /\ killConfirm' = FALSE
    /\ UNCHANGED <<selectedIndex, sortBy, sortDesc, highlighted, notUi>>

\* The keys c, m and n
setSortBy(by) ==
    /\ IF sortBy = by
       THEN sortDesc' = ~sortDesc /\ UNCHANGED sortBy
       ELSE sortBy' = by /\ sortDesc' = TRUE
    /\ UNCHANGED <<selectedIndex, showKillDialog, killConfirm, highlighted,
                   notUi>>

\* The key r
ReverseSort ==
    /\ sortDesc' = ~sortDesc
    /\ UNCHANGED <<selectedIndex, sortBy, showKillDialog, killConfirm,
                   highlighted, notUi>>

\* handleEnterKey: with the dialog open and the kill confirmed,
\* killSelectedProcess calls the callback, Monitor.KillContainerProcess,
\* with the selected index
handleEnterKey(env) ==
    /\ showKillDialog
    /\ IF killConfirm
       THEN KillContainerProcess(selectedIndex, env)
       ELSE UNCHANGED <<killVars, notKill>>
    /\ showKillDialog' = FALSE
    /\ killConfirm' = FALSE
    /\ UNCHANGED <<selectedIndex, sortBy, sortDesc, highlighted>>

RenderNext ==
    \/ \E out \in ReadOutcomes : Publish(out)
    \/ RenderTick
    \/ handleUpKey
    \/ handleDownKey
    \/ showKillProcessDialog
    \/ \E by \in {"cpu", "memory", "name"} : setSortBy(by)
    \/ ReverseSort
    \/ \E env \in EnvsFor(selectedIndex) : handleEnterKey(env)

SpecRender == ProbesAttached /\ [][RenderNext]_vars

\* C31: when the user confirms the kill dialog, the container handed to
\* the kill operation is the container the container view shows as
\* selected at that moment.
C31_KillsHighlighted ==
    [][\A env \in KillEnvs :
          (killConfirm /\ handleEnterKey(env) /\ issued' # issued)
              => issued'[Len(issued) + 1].id = highlighted]_vars

\* What is handed over in fact: the record at the selected index of the
\* list as published, whatever the sort order.
KillsByPublishedOrder ==
    [][\A env \in KillEnvs :
          (killConfirm /\ handleEnterKey(env) /\ issued' # issued)
              => /\ selectedIndex \in 0..(Len(metrics.Containers) - 1)
                 /\ issued'[Len(issued) + 1].id
                        = metrics.Containers[selectedIndex + 1].ID]_vars


\* With the order the renderer starts with, the first row of the view is
\* container_002 and the first call of the process manager is for
\* container_001.
KilledOtherThanHighlighted ==
    /\ highlighted = "container_002"
    /\ selectedIndex = 0
    /\ sortBy = "cpu" /\ sortDesc
    /\ metrics.Containers = MockContainers
    /\ issued # <<>>
    /\ issued[1].id = "container_001"



(***************************************************************************)
(* The process manager on a container whose recorded pid is 0.             *)
(***************************************************************************)
\* The lists an update cycle publishes here: a container of pid 0, alone
\* or after another container
PidZeroLists ==
    { << ContainerMetric("3", 0, "unknown") >>,
      << ContainerMetric("2", 10, "unknown"), ContainerMetric("3", 0, "unknown") >> }

PidZeroNext ==
    \/ \E list \in PidZeroLists : Publish([err |-> FALSE, list |-> list])
    \/ \E containerIndex \in 0..1, env \in KillEnvs :
           /\ containerIndex < Len(metrics.Containers)
           /\ KillContainerProcess(containerIndex, env)
           /\ UNCHANGED uiVars
    \/ \E containerIndex \in 0..1, options \in KillOptions, env \in KillEnvs :
           /\ containerIndex < Len(metrics.Containers)
           /\ KillContainerWithOptions(containerIndex, options, env)
           /\ UNCHANGED uiVars

SpecPidZero == ProbesAttached /\ [][PidZeroNext]_vars

\* The call is made on a container of pid 0 that no runtime knows
OnPidZero(containerIndex, env) ==
    /\ ValidIndex(containerIndex)
    /\ metrics.Containers[containerIndex + 1].PID = 0
    /\ env.runtime = "unknown"

\* What the step has added to the record of commands and signals
Added == {issued'[i] : i \in (Len(issued) + 1)..Len(issued')}

\* C38: no kill path asks for a signal for pid 0.  KillContainerProcess and
\* KillContainerWithOptions, with or without Force, on a container whose
\* recorded pid is 0 and whose runtime is not recognised return an error
\* and neither send nor ask for SIGTERM or SIGKILL.
C38_NoSignalForPidZero ==
    [][ \A containerIndex \in 0..1, env \in KillEnvs :
           (/\ OnPidZero(containerIndex, env)
            /\ \/ KillContainerProcess(containerIndex, env)
               \/ \E options \in KillOptions :
                      KillContainerWithOptions(containerIndex, options, env))
           => /\ killRet'.err # "nil"
              /\ \A request \in Added :
                    "pid" \in DOMAIN request => request.pid # 0 ]_vars

\* What does hold: such a call returns an error and no signal is sent to
\* pid 0, the os package having turned the request down
NoSignalSentToPidZero ==
    [][ \A containerIndex \in 0..1, env \in KillEnvs :
           (/\ OnPidZero(containerIndex, env)
            /\ \/ KillContainerProcess(containerIndex, env)
               \/ \E options \in KillOptions :
                      KillContainerWithOptions(containerIndex, options, env))
           => /\ killRet'.err # "nil"
              /\ \A request \in Added :
                    "signal" \in DOMAIN request => request.pid # 0 ]_vars

\* KillContainerProcess alone never asks: killProcessByPID returns first
KillContainerProcessNeverAsks ==
    [][ \A containerIndex \in 0..1, env \in KillEnvs :
           (OnPidZero(containerIndex, env)
               /\ KillContainerProcess(containerIndex, env))
           => /\ killRet'.err = "pid"
              /\ \A request \in Added : "pid" \notin DOMAIN request ]_vars

(***************************************************************************)
(* RenderCache: the cache of rendered rows (part_006:335-500).             *)
(***************************************************************************)
\* A nil pointer
Nil == [nil |-> TRUE]

\* ebpf.ContainerMetric (monitor.go:92-103), with a CPU share in percent and
\* a memory usage in MiB; the fields no input below varies are the same in
\* every record
CachedMetric(id, pid, cpuPercent, memoryUsage) ==
    [ID |-> id, Name |-> id, PID |-> pid, CPUPercent |-> cpuPercent,
     MemoryPercent |-> 0, MemoryUsage |-> memoryUsage, NetworkLatency |-> 0,
     TCPRetransmits |-> 0, Status |-> "running", StartTime |-> 0]

\* ebpf.Metrics
MetricsOf(containers, systemMemory) ==
    [Containers |-> containers, SystemMemory |-> systemMemory,
     EBPFMapsCount |-> 5, LastUpdate |-> 1]

\* The metrics the callers pass: those of the benchmark's first container
\* (benchmark_test.go:171-178), the same with another CPU share, another
\* memory usage, another process, another system memory, no container, and
\* a nil pointer.
CacheMetrics ==
    { MetricsOf(<< CachedMetric("test1", 1, 50, 64) >>, 1024),
      MetricsOf(<< CachedMetric("test1", 1, 75, 64) >>, 1024),
      MetricsOf(<< CachedMetric("test1", 1, 50, 128) >>, 1024),
      MetricsOf(<< CachedMetric("test1", 2, 50, 64) >>, 1024),
      MetricsOf(<< CachedMetric("test1", 1, 50, 64) >>, 2048),
      MetricsOf(<<>>, 1024),
      Nil }

\* What the caller stores with the metrics: the rows, the network rows and
\* the system block it rendered from them (nil in the benchmark).
Rendered(m) ==
    IF m = Nil THEN Nil
    ELSE [containers |-> [i \in DOMAIN m.Containers |-> m.Containers[i].ID],
          network |-> <<>>, system |-> Len(m.Containers)]

\* metricsEqual
metricsEqual(m1, m2) ==
    IF m1 = Nil \/ m2 = Nil THEN FALSE
    ELSE IF Len(m1.Containers) # Len(m2.Containers) THEN FALSE
    ELSE IF m1.SystemMemory # m2.SystemMemory THEN FALSE
    ELSE IF m1.EBPFMapsCount # m2.EBPFMapsCount THEN FALSE
    ELSE \A i \in DOMAIN m1.Containers :
            LET c1 == m1.Containers[i]
                c2 == m2.Containers[i]
            IN  ~ \/ c1.ID # c2.ID
                  \/ c1.CPUPercent # c2.CPUPercent
                  \/ c1.MemoryPercent # c2.MemoryPercent
                  \/ c1.NetworkLatency # c2.NetworkLatency
                  \/ c1.TCPRetransmits # c2.TCPRetransmits
                  \/ c1.Status # c2.Status

\* copyMetrics: a new object with the same fields
copyMetrics(m) == m

\* GetCachedData
GetCachedData(m) ==
    /\ cacheRet' =
          IF ~rcache.cacheValid
                \/ clock - rcache.lastRenderTime > rcache.cacheDuration
          THEN [op |-> "GetCachedData", metrics |-> m, at |-> clock,
                hit |-> FALSE, data |-> Nil]
          ELSE IF ~metricsEqual(m, rcache.lastMetrics)
          THEN [op |-> "GetCachedData", metrics |-> m, at |-> clock,
                hit |-> FALSE, data |-> Nil]
          ELSE [op |-> "GetCachedData", metrics |-> m, at |-> clock,
                hit |-> TRUE, data |-> rcache.cached]
    /\ UNCHANGED <<rcache, notCache>>

\* UpdateCache
UpdateCache(m, data) ==
    /\ rcache' = [rcache EXCEPT !.lastMetrics = copyMetrics(m),
                                !.lastRenderTime = clock,
                                !.cached = data,
                                !.cacheValid = TRUE]
    /\ UNCHANGED <<cacheRet, notCache>>

\* InvalidateCache
InvalidateCache ==
    /\ rcache' = [rcache EXCEPT !.cacheValid = FALSE]
    /\ UNCHANGED <<cacheRet, notCache>>

\* The caches the callers make: they keep for one or two steps of the clock
CacheDurations == {TimeStep, 2 * TimeStep}

CacheInit ==
    /\ MonitorRunning
    /\ NewMemoryOptimizer
    /\ NewRuntimeDetector
    /\ NoConfig
    /\ NoKill
    /\ NewTerminalRenderer
    /\ NoLockOps
    /\ NoAggregatorHeld
    /\ NoSamples
    /\ \E cacheDuration \in CacheDurations : NewRenderCache(cacheDuration)

\* time.Now() moves on while the cache is in use
CacheTime == 4 * TimeStep

CacheTimePasses ==
    /\ clock + TimeStep <= CacheTime
    /\ TimePasses

CacheNext ==
    \/ \E m \in CacheMetrics : GetCachedData(m)
    \/ \E m \in CacheMetrics : UpdateCache(m, Rendered(m))
    \/ InvalidateCache
    \/ CacheTimePasses

SpecCache == CacheInit /\ [][CacheNext]_vars

\* C32: a lookup reports a hit exactly when the cache has been filled and
\* not invalidated since, the cache duration has not elapsed since it was
\* filled, and the metrics looked up are equal to the metrics the cache was
\* filled with; a lookup with metrics that differ from them is a miss.
\* Stated for the lookups that pass metrics, not a nil pointer.
C32_HitExactlyOnEqualMetrics ==
    [][ \A m \in CacheMetrics \ {Nil} :
           GetCachedData(m) =>
               (cacheRet'.hit <=>
                   /\ rcache.cacheValid
                   /\ clock - rcache.lastRenderTime <= rcache.cacheDuration
                   /\ m = rcache.lastMetrics) ]_vars

\* What the code does decide by: a hit exactly when the cache is valid, not
\* older than its duration, and neither pointer is nil and the two metrics
\* agree in what metricsEqual compares.
HitExactlyOnComparedFields ==
    [][ \A m \in CacheMetrics :
           GetCachedData(m) =>
               (cacheRet'.hit <=>
                   /\ rcache.cacheValid
                   /\ clock - rcache.lastRenderTime <= rcache.cacheDuration
                   /\ metricsEqual(m, rcache.lastMetrics)) ]_vars

(***************************************************************************)
(* The sample buffers over the sample events (processor.go:884-909,       *)
(* 944-969).  Every sample has the same value in the code; arrived numbers *)
(* the sample events of a record in the order they are handled and keeps   *)
(* the numbers through the same append as the buffer.                      *)
(***************************************************************************)
\* Sample events handled for one buffer beyond the MaxSamples it holds
MaxExtra == 3

SampleHandler(kind, ev) ==
    IF kind = "cpu" THEN CPUSampleHandler(ev) ELSE MemorySampleHandler(ev)

\* A sample event, handled
SampleEvent(kind, cg, pid) ==
    LET ev == Event(IF kind = "cpu" THEN EVENT_CPU_SAMPLE
                    ELSE EVENT_MEMORY_SAMPLE, cg, pid)
    IN  /\ ~crashed
        /\ arrived[cg][kind].n < MaxSamples + MaxExtra
        /\ SampleHandler(kind, ev)
        /\ arrived' =
              IF cg \in DOMAIN containerMetrics
              THEN [arrived EXCEPT
                       ![cg][kind] = [n |-> @.n + 1,
                                      kept |-> AppendSample(@.kept, @.n + 1),
                                      err |-> SampleHandlerReturn(ev)]]
              ELSE [arrived EXCEPT ![cg][kind].err = SampleHandlerReturn(ev)]
        /\ UNCHANGED notHist

SamplesNext ==
    \/ \E cg \in StartCgroups, pid \in EventPids :
           HandleEvent(Event(EVENT_CONTAINER_START, cg, pid))
    \/ \E kind \in SampleKinds, cg \in EventCgroups, pid \in EventPids :
           SampleEvent(kind, cg, pid)
    \/ \E cg \in EventCgroups, pid \in EventPids :
           HandleEvent(Event(EVENT_CONTAINER_STOP, cg, pid))

SpecSamples == Init /\ [][SamplesNext]_vars

Buffer(cg, kind) ==
    IF kind = "cpu" THEN containerMetrics[cg].CPUSamples
    ELSE containerMetrics[cg].MemorySamples

\* The most recent min(n, MaxSamples) of n samples, in arrival order
MostRecent(n) ==
    LET len == IF n < MaxSamples THEN n ELSE MaxSamples
    IN  [i \in 1..len |-> n - len + i]

\* C33: after n sample events of a kind for a container, its buffer of that
\* kind holds the most recent min(n, 100) samples in arrival order: a sample
\* that arrives at a full buffer drops the oldest and leaves the others in
\* their order.
C33_BufferIsMostRecentSamples ==
    \A cg \in DOMAIN containerMetrics, kind \in SampleKinds :
        /\ arrived[cg][kind].kept = MostRecent(arrived[cg][kind].n)
        /\ Len(Buffer(cg, kind)) = Len(arrived[cg][kind].kept)

\* A buffer that has dropped its two oldest samples
C33_OldestDropped ==
    \E cg \in DOMAIN containerMetrics, kind \in SampleKinds :
        /\ arrived[cg][kind].n = MaxSamples + 2
        /\ Len(Buffer(cg, kind)) = MaxSamples
        /\ arrived[cg][kind].kept[1] = 3



\* C37: a CPU-sample or memory-sample event for a cgroup id without an
\* aggregated container record returns an error and leaves the aggregator
\* as it was (no record made, no sample stored, no timestamp written); a
\* container-stop event for such a cgroup id makes no record either.
C37_UnknownCgroupLeftAlone ==
    [][ \A cg \in EventCgroups \ DOMAIN containerMetrics, pid \in EventPids :
           /\ \A kind \in SampleKinds :
                 SampleEvent(kind, cg, pid)
                 => /\ UNCHANGED aggVars
                    /\ arrived'[cg][kind].err # "nil"
           /\ HandleEvent(Event(EVENT_CONTAINER_STOP, cg, pid))
              => UNCHANGED aggVars ]_vars

\* Both sample handlers have refused an event of a cgroup without a record
\* while the aggregator holds the record of another, with samples
C37_SamplesRefused ==
    /\ 3 \notin DOMAIN containerMetrics
    /\ \A kind \in SampleKinds : arrived[3][kind].err = "no container"
    /\ 2 \in DOMAIN containerMetrics
    /\ arrived[2]["cpu"].n = 1

(***************************************************************************)
(* The map collection and the tasks that read it.                          *)
(***************************************************************************)
\* C34: no task uses the map collection after cleanup has released it: the
\* tick of the event pump (readAndProcessEvents) and the update cycle of the
\* collector (updateMetrics) run with the collection loaded, however they
\* interleave with Stop.
C34_NoUseAfterRelease ==
    [][ (PumpTick \/ \E out \in ReadOutcomes : CollectorUpdate(out))
            => coll.loaded ]_vars

\* The process has died of a tick that found m.coll nil after a Stop
DiedAfterStop ==
    /\ crashed
    /\ ret.op = "Stop"
    /\ ~running


\* C35: at most one collectData goroutine of the monitor is live at any
\* time, whatever the sequence of Start and Stop, a Stop followed by a Start
\* before the next tick of the collector included.
C35_AtMostOneCollector == Live("collector") <= 1

\* Two collectors live on a running monitor: the one an earlier Start
\* spawned has not seen the monitor stopped
TwoCollectorsLive ==
    /\ running
    /\ ~crashed
    /\ Live("collector") = 2


(***************************************************************************)
(* The network latency of a container record (monitor.go:468-471,          *)
(* 492-518).  The iterator of a BPF hash map hands out the entries in an   *)
(* order the reader does not choose.  Latencies are kept in quarters of a  *)
(* nanosecond, in which every division below is exact for the tables       *)
(* drawn (the code holds them in float64 milliseconds).                    *)
(***************************************************************************)
\* The orders in which an iteration can hand out a set of keys
IterationOrders(keys) ==
    {order \in [1..Cardinality(keys) -> keys] :
        \A k \in keys : \E i \in DOMAIN order : order[i] = k}

\* calculateNetworkMetrics: metrics.AvgLatency over the entries in the
\* order of the iteration
RECURSIVE AvgLatency(_, _, _)
AvgLatency(avg, cgroupID, order) ==
    IF order = <<>> THEN avg
    ELSE LET key == Head(order)
             stats == FlowStats(flow_stats_map[key])
             latency == (stats.LatencySum * 4) \div stats.LatencyCount
         IN  AvgLatency(IF key.cgroup_id = cgroupID /\ stats.LatencyCount > 0
                        THEN IF avg = 0 THEN latency ELSE (avg + latency) \div 2
                        ELSE avg,
                        cgroupID, Tail(order))

\* container.NetworkLatency of the records readContainerMetrics builds when
\* the flow table is iterated in the given order
WithNetworkLatency(list, order, lib) ==
    [i \in DOMAIN list |->
        LET cg == CHOOSE c \in DOMAIN container_map : Hex(c) = list[i].ID
        IN  [NetworkLatency |->
                IF lib = "strict" THEN 0 ELSE AvgLatency(0, cg, order)]
            @@ list[i]]

\* One update cycle of the collector, with m.mu held, the flow table handed
\* out in the given order
LatencyCycle(order, lib) ==
    LET out == readContainerMetrics(lib) IN
    /\ clock < MaxClock
    /\ metrics' = UpdateMetrics([out EXCEPT
                                    !.list = WithNetworkLatency(@, order, lib)])
    /\ clock' = clock + 1
    /\ UNCHANGED <<running, startTime, links, coll, processorRunning,
                   ctxDone, tasks, crashed, ret, rpc, held, aggVars,
                   probeVars, libVars>>

\* Three connections of one container whose ports read the same in both
\* byte orders (the ones whose latency is sampled), and their flow keys
LatencyConns ==
    { [saddr |-> 1, daddr |-> 2, sport |-> 7967, dport |-> 257],
      [saddr |-> 1, daddr |-> 2, sport |-> 257, dport |-> 257],
      [saddr |-> 1, daddr |-> 2, sport |-> 514, dport |-> 257] }

LatencyKeys ==
    {FlowKey(conn.saddr, conn.daddr, Htons(conn.sport), Htons(conn.dport),
             IPPROTO_TCP, 2) : conn \in LatencyConns}

\* A flow entry after one packet on egress and no sample, or one sample of
\* 1, 2 or 4 ns
FlowEntries ==
    {[ZeroFlowStats EXCEPT !.packets = 1, !.bytes = 40, !.last_seen = 1,
                           !.flags = FLOW_FLAG_OUTBOUND,
                           !.latency_sum = sample, !.latency_count = 1] :
        sample \in {1, 2, 4}}
    \cup {[ZeroFlowStats EXCEPT !.packets = 1, !.bytes = 40, !.last_seen = 1,
                                !.flags = FLOW_FLAG_OUTBOUND]}

\* A running monitor whose probes have recorded one container and some of
\* the three flows; no probe runs while the table is read.
LatencyInit ==
    /\ StartedMonitor
    /\ LibInit
    /\ ktime = MaxKtime
    /\ container_map = Put(<<>>, 2, NewContainer(2, 10))
    /\ pid_to_cgroup_map = Put(<<>>, 10, 2)
    /\ events = <<>>
    /\ stats_map = [i \in 0..(StatsEntries - 1) |-> 0]
    /\ flow_stats_map \in UNION {[keys -> FlowEntries] : keys \in SUBSET LatencyKeys}
    /\ latency_map = <<>>
    /\ network_events = <<>>
    /\ network_stats_map = [i \in 0..(NetStatsEntries - 1) |-> 0]
    /\ cpu = [c \in CPUs |-> IdleCpu]

LatencyNext ==
    \E lib \in Unmarshalers, order \in IterationOrders(DOMAIN flow_stats_map) :
        LatencyCycle(order, lib)

SpecLatency == LatencyInit /\ [][LatencyNext]_vars

\* C36: the network latency a snapshot reports for a container does not
\* depend on the order in which the flow table is iterated: for the flow
\* entries as they are, every order gives the value the cycle published.
C36_LatencyOrderIndependent ==
    [][ \A lib \in Unmarshalers,
           order, other \in IterationOrders(DOMAIN flow_stats_map) :
           LatencyCycle(order, lib)
           => metrics'.Containers
                 = UpdateMetrics(
                       [readContainerMetrics(lib) EXCEPT
                           !.list = WithNetworkLatency(@, other, lib)]).Containers
      ]_vars

\* With at most two flows of the cgroup sampled the order does not matter
TwoFlowsOrderIndependent ==
    [][ \A lib \in Unmarshalers,
           order, other \in IterationOrders(DOMAIN flow_stats_map) :
           (/\ LatencyCycle(order, lib)
            /\ Cardinality({k \in DOMAIN flow_stats_map :
                               flow_stats_map[k].latency_count > 0}) <= 2)
           => metrics'.Containers
                 = UpdateMetrics(
                       [readContainerMetrics(lib) EXCEPT
                           !.list = WithNetworkLatency(@, other, lib)]).Containers
      ]_vars


(***************************************************************************)
(* DataProcessor.GetAggregatedMetrics (processor.go:327-334) and the       *)
(* writers of the aggregator.                                              *)
(***************************************************************************)
\* The MetricsAggregator object: its maps, its system block, lastReset
Aggregator ==
    [containerMetrics |-> containerMetrics, networkMetrics |-> networkMetrics,
     systemMetrics |-> systemMetrics, lastReset |-> lastReset]

\* GetAggregatedMetrics: `return p.aggregator, nil` under the read lock.
\* alias tells whether the value returned is the aggregator's own object (a
\* pointer to it) or a copy; snap is the aggregator at the time of the call.
GetAggregatedMetrics ==
    /\ ~crashed
    /\ aggHeld' = [op |-> "GetAggregatedMetrics", alias |-> TRUE,
                   snap |-> Aggregator]
    /\ UNCHANGED notView

\* What the caller reads through the value it holds
AggregatorView == IF aggHeld.alias THEN Aggregator ELSE aggHeld.snap

AggViewNext ==
    \/ GetAggregatedMetrics
    \/ \E cg \in StartCgroups, pid \in EventPids :
           HandleEvent(Event(EVENT_CONTAINER_START, cg, pid))
    \/ \E cg \in EventCgroups, pid \in EventPids :
           HandleEvent(Event(EVENT_CONTAINER_STOP, cg, pid))
    \/ \E cg \in EventCgroups, pid \in EventPids :
           HandleEvent(Event(EVENT_NETWORK_PACKET, cg, pid))
    \/ AggregatorTick
    \/ ReaperTick

SpecAggView == ProbesAttached /\ [][AggViewNext]_vars

\* C40: GetAggregatedMetrics returns a copy of the aggregator: what the
\* event handlers, the aggregation ticks and the reaper do after the call
\* does not show through the value the caller holds.
C40_ReturnedCopyUnaffected ==
    [][ (aggHeld.op = "GetAggregatedMetrics" /\ aggHeld' = aggHeld)
            => AggregatorView' = AggregatorView ]_vars

\* The caller holds the aggregator itself and reads a record that was made
\* after its call
SeesLaterRecord ==
    /\ aggHeld.op = "GetAggregatedMetrics"
    /\ aggHeld.alias
    /\ aggHeld.snap.containerMetrics = <<>>
    /\ AggregatorView.containerMetrics # <<>>


(***************************************************************************)
(* The user-space locks.  Every operation is the sequence of lock and      *)
(* unlock calls it makes, in program order; what it does in between is in  *)
(* the models above.  A sync.RWMutex is free for a writer when nobody      *)
(* holds it, and for a reader when no writer holds it or waits for it.     *)
(***************************************************************************)
\* The lock of the one Monitor, DataProcessor, MetricsAggregator or
\* MemoryManager, and the lock of a pool
Mu(owner) == [of |-> owner, pool |-> "none"]
PoolMu(name) == [of |-> "ObjectPool", pool |-> name]

Lock(mu) == [call |-> "Lock", mu |-> mu]
Unlock(mu) == [call |-> "Unlock", mu |-> mu]
RLock(mu) == [call |-> "RLock", mu |-> mu]
RUnlock(mu) == [call |-> "RUnlock", mu |-> mu]

\* The pools the callers and the statistics use here; the others are used
\* in the same way
LockedPools == <<"container_metrics", "flow_keys">>

\* updateMemoryStats: pool.Stats() for every pool, under mm.mu
RECURSIVE StatsCalls(_)
StatsCalls(names) ==
    IF names = <<>> THEN <<>>
    ELSE <<RLock(PoolMu(Head(names))), RUnlock(PoolMu(Head(names)))>>
             \o StatsCalls(Tail(names))

Op(fn) == [fn |-> fn, pool |-> "none"]
Idle == [op |-> Op("idle"), pc |-> 0]

LockOps ==
    {Op(fn) : fn \in {"Start", "Stop", "GetMetrics", "collectData",
                      "HandleEvent", "performAggregation", "performCleanup",
                      "updateMemoryStats", "OptimizeMemory"}}
    \cup {[fn |-> fn, pool |-> LockedPools[i]] :
             fn \in {"GetFromPool", "PutToPool"}, i \in DOMAIN LockedPools}

\* the lock calls with Stop taking p.mu before m.mu
LockCallsStopInverted(op) ==
    IF op.fn = "Stop"
    THEN <<Lock(Mu("DataProcessor")), Lock(Mu("Monitor")),
           Unlock(Mu("Monitor")), Unlock(Mu("DataProcessor"))>>
    ELSE <<Lock(Mu("Monitor")), Lock(Mu("DataProcessor")),
           Unlock(Mu("DataProcessor")), Unlock(Mu("Monitor"))>>

\* The lock calls of an operation, in program order
LockCalls(op) ==
    CASE op.fn \in {"Start", "Stop"} ->
             \* Monitor.Start / Stop, with DataProcessor.Start / Stop inside
             <<Lock(Mu("Monitor")), Lock(Mu("DataProcessor")),
               Unlock(Mu("DataProcessor")), Unlock(Mu("Monitor"))>>
      [] op.fn = "GetMetrics" ->
             <<RLock(Mu("Monitor")), RUnlock(Mu("Monitor"))>>
      [] op.fn = "collectData" ->
             \* a tick: IsRunning, then updateMetrics
             <<RLock(Mu("Monitor")), RUnlock(Mu("Monitor")),
               Lock(Mu("Monitor")), Unlock(Mu("Monitor"))>>
      [] op.fn \in {"HandleEvent", "performAggregation", "performCleanup"} ->
             <<Lock(Mu("MetricsAggregator")), Unlock(Mu("MetricsAggregator"))>>
      [] op.fn = "updateMemoryStats" ->
             <<Lock(Mu("MemoryManager"))>> \o StatsCalls(LockedPools)
                 \o <<Unlock(Mu("MemoryManager"))>>
      [] op.fn = "OptimizeMemory" ->
             \* GetCurrentMemory, then clearObjectPools
             <<RLock(Mu("MemoryManager")), RUnlock(Mu("MemoryManager")),
               Lock(Mu("MemoryManager")), Unlock(Mu("MemoryManager"))>>
      [] OTHER ->
             \* GetFromPool / PutToPool, then ObjectPool.Get / Put
             <<RLock(Mu("MemoryManager")), RUnlock(Mu("MemoryManager")),
               Lock(PoolMu(op.pool)), Unlock(PoolMu(op.pool))>>

\* The calls a thread has made and returned from
Done(t) ==
    IF lockpc[t].op.fn = "idle" THEN <<>>
    ELSE SubSeq(LockCalls(lockpc[t].op), 1, lockpc[t].pc - 1)

\* The call a thread is in (it waits, or is about to return)
Calling(t) == LockCalls(lockpc[t].op)[lockpc[t].pc]

InCall(t, call, mu) ==
    /\ lockpc[t].op.fn # "idle"
    /\ Calling(t) = [call |-> call, mu |-> mu]

\* The thread holds the lock in this mode: it took it and has not given it
\* back
Holds(t, call, mu) ==
    \E i \in DOMAIN Done(t) :
        /\ Done(t)[i] = [call |-> call, mu |-> mu]
        /\ \A j \in DOMAIN Done(t) : j > i => Done(t)[j].mu # mu

HoldsAny(t, mu) == Holds(t, "Lock", mu) \/ Holds(t, "RLock", mu)

\* The threads a thread waits for in the call it is in
WaitsFor(t) ==
    IF lockpc[t].op.fn = "idle" THEN {}
    ELSE CASE Calling(t).call = "Lock" ->
                  {u \in Threads \ {t} : HoldsAny(u, Calling(t).mu)}
           [] Calling(t).call = "RLock" ->
                  {u \in Threads \ {t} :
                      \/ Holds(u, "Lock", Calling(t).mu)
                      \/ InCall(u, "Lock", Calling(t).mu)}
           [] OTHER -> {}

\* A caller enters an operation
LockCall(t, op) ==
    /\ lockpc[t].op.fn = "idle"
    /\ lockpc' = [lockpc EXCEPT ![t] = [op |-> op, pc |-> 1]]
    /\ UNCHANGED notLocks

\* The call a thread is in returns
LockReturn(t) ==
    /\ lockpc[t].op.fn # "idle"
    /\ WaitsFor(t) = {}
    /\ lockpc' = [lockpc EXCEPT
                     ![t] = IF lockpc[t].pc = Len(LockCalls(lockpc[t].op))
                            THEN Idle
                            ELSE [@ EXCEPT !.pc = @ + 1]]
    /\ UNCHANGED notLocks

LocksNext ==
    \/ \E t \in Threads, op \in LockOps : LockCall(t, op)
    \/ \E t \in Threads : LockReturn(t)

SpecLocks == ProbesAttached /\ [][LocksNext]_vars

\* The order of the locks: a thread that takes one holds none that comes
\* later or at the same place
LockOrder ==
    <<"Monitor", "DataProcessor", "MetricsAggregator", "MemoryManager",
      "ObjectPool">>

LockRank(mu) == CHOOSE i \in DOMAIN LockOrder : LockOrder[i] = mu.of

TakesInOrder(t) ==
    (lockpc[t].op.fn # "idle" /\ Calling(t).call \in {"Lock", "RLock"})
    => \A i \in DOMAIN Done(t) :
          HoldsAny(t, Done(t)[i].mu)
          => LockRank(Done(t)[i].mu) < LockRank(Calling(t).mu)

\* A set of threads that wait for one another only
Deadlocked(S) ==
    /\ S # {}
    /\ \A t \in S : WaitsFor(t) # {} /\ WaitsFor(t) \subseteq S

\* C39: the locks of the Monitor, the DataProcessor, the MetricsAggregator,
\* the MemoryManager and the ObjectPools are taken in one order by every
\* operation, and no interleaving of Start, Stop, GetMetrics, update
\* cycles, event handlers, aggregation, reaper cleanup, pool Get and Put,
\* statistics update and pool sweep leaves threads waiting for one another.
C39_LocksOrderedNoDeadlock ==
    /\ \A t \in Threads : TakesInOrder(t)
    /\ \A S \in SUBSET Threads : ~Deadlocked(S)

\* A thread inside Stop holds m.mu and p.mu while another waits for m.mu
\* in an update cycle
C39_NestedLocksHeld ==
    \E t, u \in Threads :
        /\ lockpc[t].op.fn = "Stop"
        /\ Holds(t, "Lock", Mu("Monitor"))
        /\ Holds(t, "Lock", Mu("DataProcessor"))
        /\ lockpc[u].op.fn = "collectData"
        /\ InCall(u, "Lock", Mu("Monitor"))
        /\ t \in WaitsFor(u)

====
